---- MODULE Spec2Model ----
(***************************************************************************)
(* The recipe site server (server/src/index.ts, auth.ts, validators.ts):   *)
(* the POST / PUT / DELETE handlers of /api/recipes over the Prisma store, *)
(* with the tag upserts they run before the recipe write (Spec); register, *)
(* login and the authOptional middleware (AuthSpec); the photo upload      *)
(* endpoint with its three backends (UploadSpec); and the recipe list      *)
(* (ListSpec); the start of a server process, start.ts with the schema     *)
(* push and index.ts with ensureAdminUser and app.listen (BootSpec,        *)
(* BootLiveSpec); and the client's search box and recipe editor, main.ts   *)
(* (ClientSpec).                                                           *)
(*                                                                         *)
(* A handler is split where it awaits the store, so that other requests    *)
(* interleave exactly where they can in the server: the first step of a    *)
(* request is its synchronous prefix up to and including its first store   *)
(* call, each tag upsert is one store call, and the nested recipe write    *)
(* (one Prisma transaction) is one store call, after which the response    *)
(* is sent.                                                                *)
(***************************************************************************)
EXTENDS Integers, Sequences, FiniteSets, Bags, TLC

VARIABLES
    tag,          \* Tag table: set of rows [id, name, color]
    recipe,       \* Recipe table: set of rows [id, name, ownerId]
    recipeTag,    \* RecipeTag table: set of rows [recipeId, tagId]
    block,        \* Block table: bag of rows [recipeId, order, type, text, photoUrl]
    nextRecipeId, \* the store's next fresh Recipe id
    inflight,     \* per handler slot: the request it is running, or Idle
    nreq,         \* number of requests received so far
    last,         \* the request answered last, with its response
    account,      \* User table: set of rows [id, email, displayName, passwordHash, role]
    authflight,   \* per handler slot: the registration it is running, or AuthIdle
    authLast,     \* the register / login request answered last, with its response
    cookie,       \* the auth_token cookie the client holds, Null if none
    now,          \* the clock, in days
    seen,         \* the request authOptional handled last, with what it did
    env,          \* process.env: which variables are set
    files,        \* the files of the uploads directory
    cloud,        \* the objects stored at the cloud backends
    upflight,     \* the upload in flight, or UpIdle
    upLast,       \* the upload answered last, with its response
    listLast,     \* the list request answered last, with its response
    startEnv,     \* process.env as start.ts and ensureAdminUser read it
    proc,         \* per server process: where its startup stands
    boots,        \* number of process starts so far
    state,        \* the client's state object: query, recipes, filterTags
    listCalls,    \* the client's api.listRecipes calls that wait for their response
    sent,         \* number of list requests the client has sent
    editor,       \* the recipe editor modal: "closed" or "open"
    editorTags    \* the tags list of the open recipe editor

recipeVars == <<tag, recipe, recipeTag, block, nextRecipeId, inflight, last>>

authVars == <<account, authflight, authLast, cookie, now, seen>>

uploadVars == <<env, files, cloud, upflight, upLast>>

listVars == <<listLast>>

bootVars == <<startEnv, proc, boots>>

clientVars == <<state, listCalls, sent, editor, editorTags>>

vars == <<recipeVars, nreq, authVars, uploadVars, listVars, bootVars, clientVars>>

db == <<tag, recipe, recipeTag, block>>

---------------------------------------------------------------------------
(* Bound of the model *)

MaxReqs == 2

(* Program constants *)

MaxNameLen == 120

MaxTagLen == 40

---------------------------------------------------------------------------
(* Inputs *)

Null == "<null>"

\* the id of no row: a tag of a request that is not resolved yet
NoId == <<>>

NoUser == [id |-> Null, role |-> Null]

\* identities a verified session token can carry (AuthUser: id and role)
Users ==
    { [id |-> "u1", role |-> "USER"],
      [id |-> "u2", role |-> "USER"],
      [id |-> "adm", role |-> "ADMIN"] }

\* req.user after authOptional: an identity, or none
Callers == Users \cup {NoUser}

Green == [name |-> "Vegan", color |-> "green"]

Red == [name |-> "Vegan", color |-> "red"]

TextA == [type |-> "TEXT", text |-> "a", photoUrl |-> Null]

PhotoU == [type |-> "PHOTO", text |-> Null, photoUrl |-> "u1"]

\* tag lists of a request body: none, one tag, two tags of the same name and
\* different colours, the same (name, color) twice
TagLists == { <<>>, <<Red>>, <<Green, Red>>, <<Red, Red>> }

\* block lists of a request body: none (invalid), one, two, three blocks
BlockLists == { <<>>, <<PhotoU>>, <<PhotoU, TextA>>, <<TextA, PhotoU, TextA>> }

Bodies == [ name : {"Stew"}, tags : TagLists, blocks : BlockLists ]

NoBody == [name |-> Null, tags |-> <<>>, blocks |-> <<>>]

\* the store the server starts on holds one recipe, written by
\* POST /api/recipes of u1 with tags <<Green>> and blocks <<TextA, PhotoU>>
SeedTags == <<Green>>

SeedBlocks == <<TextA, PhotoU>>

GreenId == <<"Vegan", "green", 1>>

RedId == <<"Vegan", "red", 1>>

SeedTagTable == {[id |-> GreenId, name |-> "Vegan", color |-> "green"]}

SeedRecipeTable == {[id |-> 1, name |-> "Soup", ownerId |-> "u1"]}

SeedRecipeTagTable == {[recipeId |-> 1, tagId |-> GreenId]}

SeedBlockTable ==
    SetToBag({ [recipeId |-> 1, order |-> 0, type |-> "TEXT", text |-> "a", photoUrl |-> Null],
               [recipeId |-> 1, order |-> 1, type |-> "PHOTO", text |-> Null, photoUrl |-> "u1"] })

Handlers == {"h1", "h2"}

Idle ==
    [ pc |-> "idle", kind |-> Null, caller |-> NoUser, id |-> 0,
      body |-> NoBody, tagIds |-> <<>> ]

\* last: the request, the status of res.status(...) and, for a 500, the error
\* that console.error logged
NoResponse ==
    [ kind |-> Null, status |-> 0, error |-> Null, caller |-> NoUser, id |-> 0,
      body |-> NoBody ]

---------------------------------------------------------------------------
(* validators.ts *)

TagInputValid(t) ==
    /\ Len(t.name) >= 1 /\ Len(t.name) <= MaxTagLen
    /\ Len(t.color) >= 1 /\ Len(t.color) <= MaxTagLen

BlockInputValid(b) ==
    \/ b.type = "TEXT" /\ b.text # Null
    \/ b.type = "PHOTO" /\ b.photoUrl # Null /\ Len(b.photoUrl) >= 1

RecipeUpsertValid(body) ==
    /\ Len(body.name) >= 1 /\ Len(body.name) <= MaxNameLen
    /\ \A i \in DOMAIN body.tags : TagInputValid(body.tags[i])
    /\ Len(body.blocks) >= 1
    /\ \A i \in DOMAIN body.blocks : BlockInputValid(body.blocks[i])

---------------------------------------------------------------------------
(* Store *)

RecipeFindUnique(id) == { r \in recipe : r.id = id }

TagRowsOf(name, color) == { t \in tag : t.name = name /\ t.color = color }

\* a row id the store has not used yet for this (name, color)
NewTagId(name, color) == <<name, color, Cardinality(TagRowsOf(name, color)) + 1>>

NewTagRow(name, color) == [id |-> NewTagId(name, color), name |-> name, color |-> color]

\* faulty variant of TagUpsertCall: a plain create, which the unique key rejects
\* when the row is there
TagCreateCall(name, color) ==
    IF TagRowsOf(name, color) # {}
    THEN [error |-> "P2002 Tag", id |-> NoId, table |-> tag]
    ELSE [ error |-> Null, id |-> NewTagId(name, color),
           table |-> tag \cup {NewTagRow(name, color)} ]

\* prisma.tag.upsert on the unique key name_color with update {}: the error
\* it throws (none), the id of the row it returns, the Tag table after it
TagUpsertCall(name, color) ==
    IF TagRowsOf(name, color) # {}
    THEN [ error |-> Null, id |-> (CHOOSE t \in TagRowsOf(name, color) : TRUE).id,
           table |-> tag ]
    ELSE [ error |-> Null, id |-> NewTagId(name, color),
           table |-> tag \cup {NewTagRow(name, color)} ]

\* faulty variant of BlockRows: the order counted from 1
BlockRowsFromOne(id, blocks) ==
    SetToBag({ [ recipeId |-> id, order |-> i, type |-> blocks[i].type,
                 text |-> IF blocks[i].type = "TEXT" THEN blocks[i].text ELSE Null,
                 photoUrl |-> IF blocks[i].type = "TEXT" THEN Null ELSE blocks[i].photoUrl ]
               : i \in DOMAIN blocks })

\* blocks.create of the nested write: order is the index in the input array
BlockRows(id, blocks) ==
    SetToBag({ [ recipeId |-> id, order |-> i - 1, type |-> blocks[i].type,
                 text |-> IF blocks[i].type = "TEXT" THEN blocks[i].text ELSE Null,
                 photoUrl |-> IF blocks[i].type = "TEXT" THEN Null ELSE blocks[i].photoUrl ]
               : i \in DOMAIN blocks })

\* faulty variant of RecipeTagRows: the ids are not those the upserts returned
RecipeTagRowsStale(id, tagIds) ==
    { [recipeId |-> id, tagId |-> <<"stale", i>>] : i \in DOMAIN tagIds }

\* recipeTags.create of the nested write: one row per resolved tag
RecipeTagRows(id, tagIds) ==
    { [recipeId |-> id, tagId |-> tagIds[i]] : i \in DOMAIN tagIds }

\* the composite key (recipeId, tagId) rejects the create of two equal rows
RecipeTagKeyConflict(tagIds) ==
    \E i, j \in DOMAIN tagIds : i # j /\ tagIds[i] = tagIds[j]

\* faulty variant of BlocksWithout: the old rows are kept
BlocksKept(id) == block

\* blocks.deleteMany {} of the nested write: the Block table without the
\* rows of recipe id
BlocksWithout(id) ==
    [ b \in { x \in BagToSet(block) : x.recipeId # id } |-> block[b] ]

\* faulty variant of RecipeTagsWithout: the old associations are kept
RecipeTagsKept(id) == recipeTag

\* recipeTags.deleteMany {} of the nested write
RecipeTagsWithout(id) == { rt \in recipeTag : rt.recipeId # id }

\* deleting a Recipe row cascades to its Block and RecipeTag rows
CascadeBlocks(id) ==
    [ b \in { x \in BagToSet(block) : x.recipeId # id } |-> block[b] ]

CascadeRecipeTags(id) == { rt \in recipeTag : rt.recipeId # id }

---------------------------------------------------------------------------
(* Reads: GET /api/recipes/:id *)

\* faulty variant of SortByOrder: the rows by descending order
RECURSIVE SortByOrderDesc(_)
SortByOrderDesc(B) ==
    IF BagToSet(B) = {} THEN <<>>
    ELSE LET m == CHOOSE x \in BagToSet(B) : \A y \in BagToSet(B) : x.order >= y.order
         IN <<m>> \o SortByOrderDesc(B (-) SetToBag({m}))

\* orderBy: { order: 'asc' } over a bag of Block rows
RECURSIVE SortByOrder(_)
SortByOrder(B) ==
    IF BagToSet(B) = {} THEN <<>>
    ELSE LET m == CHOOSE x \in BagToSet(B) : \A y \in BagToSet(B) : x.order <= y.order
         IN <<m>> \o SortByOrder(B (-) SetToBag({m}))

\* the Block rows of recipe id, as a bag
BlocksOf(id) ==
    [ b \in { x \in BagToSet(block) : x.recipeId = id } |-> block[b] ]

\* the Tag rows recipe id is associated with
TagsOf(id) ==
    { t \in tag : \E rt \in recipeTag : rt.recipeId = id /\ rt.tagId = t.id }

\* the response of GET /api/recipes/:id
GetRecipe(id) ==
    IF RecipeFindUnique(id) = {}
    THEN [status |-> 404, name |-> Null, ownerId |-> Null, tags |-> {}, blocks |-> <<>>]
    ELSE LET r == CHOOSE x \in RecipeFindUnique(id) : TRUE
             rows == SortByOrder(BlocksOf(id))
         IN [ status |-> 200, name |-> r.name, ownerId |-> r.ownerId,
              tags |-> TagsOf(id),
              blocks |-> [ i \in DOMAIN rows |->
                             [ order |-> rows[i].order, type |-> rows[i].type,
                               text |-> rows[i].text, photoUrl |-> rows[i].photoUrl ] ] ]

---------------------------------------------------------------------------
(* auth.ts, index.ts: canEdit *)

\* faulty variant of canEdit: any authenticated user may edit
canEditAnyUser(user, ownerId) == user # NoUser

canEdit(user, ownerId) ==
    IF user = NoUser THEN FALSE
    ELSE IF user.role = "ADMIN" THEN TRUE
    ELSE user.id = ownerId

---------------------------------------------------------------------------
(* Accounts: inputs *)

\* the clock runs to one day past the life of a token signed on day 1
MaxTime == 8

\* JWT_EXPIRES_IN ?? '7d', in days
TokenTtl == 7

MaxDisplayNameLen == 50

MinPasswordLen == 8

MaxPasswordLen == 200

\* an e-mail address is a local part, "@" and a domain
MailA == <<"ann", "@", "x.io">>

MailB == <<"bob", "@", "x.io">>

NoMail == <<"ann">>

Emails == {MailA, MailB, NoMail}

RegisterBodies ==
    [ email : Emails, displayName : {"Bob", ""}, password : {"password2", "short"} ]

LoginBodies == [ email : Emails, password : {"password1", "password2", ""} ]

NoCredentials == [email |-> <<>>, displayName |-> Null, password |-> Null]

\* the ids the store generates for User rows, in the order it hands them out
UserIds == <<"u1", "u2", "u3">>

NoIdentity == [id |-> Null, email |-> <<>>, displayName |-> Null, role |-> Null]

\* process.env.JWT_SECRET ?? 'dev', and a key that is not the server's
Secret == "JWT_SECRET"

OtherKey == "other"

\* no cookie, and a cookie that is no JWT
NoToken == [form |-> "none", payload |-> NoIdentity, iat |-> 0, exp |-> 0, mac |-> <<>>]

Garbage == [form |-> "garbage", payload |-> NoIdentity, iat |-> 0, exp |-> 0, mac |-> <<>>]

AuthIdle == [pc |-> "idle", body |-> NoCredentials]

\* authLast: the request, then the response: status, the error text of the
\* body or the user of the body, the cookie set; thrown is what console.error
\* logged
NoAuthResponse ==
    [ kind |-> Null, email |-> <<>>, password |-> Null, status |-> 0, error |-> Null,
      thrown |-> Null, body |-> NoIdentity, cookie |-> NoToken ]

NotSeen == [token |-> NoToken, at |-> 0, user |-> NoUser, next |-> FALSE, status |-> 0]

\* the account the store starts with
SeedUserTable ==
    { [ id |-> "u1", email |-> MailA, displayName |-> "Ann",
        passwordHash |-> <<"bcrypt", "password1">>, role |-> "USER" ] }

---------------------------------------------------------------------------
(* validators.ts: registerSchema, loginSchema *)

\* z.string().email()
IsEmail(e) == Len(e) = 3 /\ e[2] = "@" /\ e[1] # "" /\ e[3] # ""

RegisterValid(b) ==
    /\ IsEmail(b.email)
    /\ Len(b.displayName) >= 1 /\ Len(b.displayName) <= MaxDisplayNameLen
    /\ Len(b.password) >= MinPasswordLen /\ Len(b.password) <= MaxPasswordLen

LoginValid(b) == IsEmail(b.email) /\ Len(b.password) >= 1

---------------------------------------------------------------------------
(* Accounts: the store, bcrypt, jsonwebtoken *)

UserFindUnique(email) == { u \in account : u.email = email }

bcryptHash(password) == <<"bcrypt", password>>

bcryptCompare(password, hash) == hash = bcryptHash(password)

\* what the handlers sign and answer: id, email, displayName, role of a row
Identity(u) ==
    [id |-> u.id, email |-> u.email, displayName |-> u.displayName, role |-> u.role]

\* the HMAC of a token's content under a key
Mac(payload, iat, exp, key) == <<payload, iat, exp, key>>

\* jwt.sign(user, secret, { expiresIn }) on day t
signToken(u, t) ==
    [ form |-> "jwt", payload |-> u, iat |-> t, exp |-> t + TokenTtl,
      mac |-> Mac(u, t, t + TokenTtl, Secret) ]

\* jwt.verify(token, secret) on day t: whether it throws, and what it returns
\* (the signed payload with the iat and exp claims jwt.sign added)
jwtVerify(token, t) ==
    IF token.form # "jwt" THEN [ok |-> FALSE, decoded |-> NoUser]
    ELSE IF token.mac # Mac(token.payload, token.iat, token.exp, Secret)
         THEN [ok |-> FALSE, decoded |-> NoUser]
    ELSE IF t >= token.exp THEN [ok |-> FALSE, decoded |-> NoUser]
    ELSE [ ok |-> TRUE,
           decoded |-> [ id |-> token.payload.id, email |-> token.payload.email,
                         displayName |-> token.payload.displayName,
                         role |-> token.payload.role,
                         iat |-> token.iat, exp |-> token.exp ] ]

\* faulty variant of authOptional: the payload is read without verifying
authOptionalDecodeOnly(token, t) ==
    [ user |-> IF token.form = "jwt"
               THEN [ id |-> token.payload.id, email |-> token.payload.email,
                      displayName |-> token.payload.displayName,
                      role |-> token.payload.role,
                      iat |-> token.iat, exp |-> token.exp ]
               ELSE NoUser,
      next |-> TRUE, status |-> 0 ]

\* authOptional on a request with cookie token on day t: req.user, whether
\* next() is called, and the status it answers itself (0: none)
authOptional(token, t) ==
    IF token = NoToken THEN [user |-> NoUser, next |-> TRUE, status |-> 0]
    ELSE [ user |-> IF jwtVerify(token, t).ok THEN jwtVerify(token, t).decoded ELSE NoUser,
           next |-> TRUE, status |-> 0 ]

\* faulty variant of requireAuth: everyone passes
requireAuthOpen(caller) == 0

\* requireAuth: the status it answers, 0 if it calls next()
requireAuth(caller) == IF caller = NoUser THEN 401 ELSE 0

---------------------------------------------------------------------------
(* Uploads: inputs *)

\* multer limits.fileSize: 10 * 1024 * 1024
MaxFileSize == 10485760

\* the variables of process.env the upload endpoint reads; TRUE: set to a
\* non-empty text
EnvVars ==
    { "CLOUDINARY_URL", "CLOUDINARY_CLOUD_NAME", "CLOUDINARY_API_KEY",
      "CLOUDINARY_API_SECRET", "GCS_BUCKET", "GCP_SERVICE_ACCOUNT_JSON",
      "GOOGLE_APPLICATION_CREDENTIALS" }

Envs == [EnvVars -> BOOLEAN]

NoEnv == [v \in EnvVars |-> FALSE]

\* the multipart body of an upload: the field of its file part, the name and
\* the size of the file; NoFile: a body without a file part
NoFile == [field |-> Null, name |-> Null, size |-> 0]

UploadFiles ==
    { NoFile,
      [field |-> "photo", name |-> "a.png", size |-> 1],
      [field |-> "photo", name |-> "a.png", size |-> MaxFileSize + 1],
      [field |-> "file", name |-> "a.png", size |-> 1] }

\* no file on disk, no URL in the answer
NoPath == [n |-> 0, name |-> Null]

NoUrl == [backend |-> Null, path |-> NoPath]

UpIdle == [pc |-> "idle", caller |-> NoUser, file |-> NoFile, path |-> NoPath, calls |-> <<>>]

\* upLast: the request, the status and the error text or the URL of the
\* answer, the file multer wrote, the cloud upload calls made, in sequence
NoUpload ==
    [ caller |-> NoUser, file |-> NoFile, status |-> 0, error |-> Null, url |-> NoUrl,
      path |-> NoPath, calls |-> <<>> ]

---------------------------------------------------------------------------
(* Uploads: configuration *)

cloudinaryConfigured ==
    IF env["CLOUDINARY_URL"] THEN TRUE
    ELSE /\ env["CLOUDINARY_CLOUD_NAME"]
         /\ env["CLOUDINARY_API_KEY"]
         /\ env["CLOUDINARY_API_SECRET"]

googleStorageConfigured ==
    /\ env["GCS_BUCKET"]
    /\ (env["GCP_SERVICE_ACCOUNT_JSON"] \/ env["GOOGLE_APPLICATION_CREDENTIALS"])

\* faulty variant of UploadBackend: Google Cloud Storage is asked first
UploadBackendGcsFirst ==
    IF googleStorageConfigured THEN "gcs"
    ELSE IF cloudinaryConfigured THEN "cloudinary"
    ELSE "local"

\* the branch the upload handler takes for a file multer has stored
UploadBackend ==
    IF cloudinaryConfigured THEN "cloudinary"
    ELSE IF googleStorageConfigured THEN "gcs"
    ELSE "local"

---------------------------------------------------------------------------
(* Recipe list: inputs *)

\* GET /api/recipes: the q and tagIds parameters, then the answer
NoListing == [q |-> <<>>, tagIds |-> {}, status |-> 0, items |-> {}]

---------------------------------------------------------------------------
(* Startup: inputs *)

\* process starts the model follows
MaxBoots == 3

\* server processes on the same store
Procs == {"p1", "p2"}

\* an environment variable that is not set, where the values are texts
NotSet == <<Null>>

\* values of AUTO_DB_PUSH: not set, the empty text, and texts in and out of
\* the list of start.ts, one of them in upper case
AutoDbPushValues ==
    { NotSet, <<>>, <<"T", "R", "U", "E">>, <<"1">>, <<"y", "e", "s">>, <<"o", "n">>,
      <<"o", "f", "f">> }

StartEnvs ==
    [ NODE_ENV : {Null, "production", "test"},
      AUTO_DB_PUSH : AutoDbPushValues,
      DATABASE_URL : BOOLEAN,
      ADMIN_EMAIL : {NotSet, MailA, MailB},
      ADMIN_PASSWORD : {Null, "", "password3"} ]

\* the environment of a server without schema push and without admin
NoStartEnv ==
    [ NODE_ENV |-> Null, AUTO_DB_PUSH |-> NotSet, DATABASE_URL |-> TRUE,
      ADMIN_EMAIL |-> NotSet, ADMIN_PASSWORD |-> Null ]

\* the outcomes of the prisma db push child: exit code 0, exit code 1, exit
\* on a signal (code null), or the 'error' event of a spawn that failed
PushOutcomes == {"0", "1", "null", "error"}

\* a process that is not running; push is the outcome of the schema push of
\* this start, code the exit code, err what .catch logged, created whether
\* ensureAdminUser logged the creation
Off == [pc |-> "off", push |-> "none", code |-> -1, err |-> Null, created |-> FALSE]

\* a process that serves, started without schema push and without admin
Serving == [Off EXCEPT !.pc = "listening"]

---------------------------------------------------------------------------
(* start.ts: the auto schema push toggle *)

\* String.prototype.toLowerCase on the letters the inputs use
toLowerCase(t) ==
    [ i \in DOMAIN t |->
        CASE t[i] = "T" -> "t"
          [] t[i] = "R" -> "r"
          [] t[i] = "U" -> "u"
          [] t[i] = "E" -> "e"
          [] OTHER -> t[i] ]

defaultAuto(e) ==
    IF e.NODE_ENV = "production" THEN <<"t", "r", "u", "e">> ELSE <<"f", "a", "l", "s", "e">>

autoDbPushRaw(e) ==
    toLowerCase(IF e.AUTO_DB_PUSH = NotSet THEN defaultAuto(e) ELSE e.AUTO_DB_PUSH)

shouldAutoDbPush(e) ==
    autoDbPushRaw(e) \in { <<"1">>, <<"t", "r", "u", "e">>, <<"y", "e", "s">>, <<"o", "n">> }

---------------------------------------------------------------------------
\* the store as the server finds it: the seed recipe and the seed account
InitStore ==
    /\ tag = SeedTagTable
    /\ recipe = SeedRecipeTable
    /\ recipeTag = SeedRecipeTagTable
    /\ block = SeedBlockTable
    /\ nextRecipeId = 2
    /\ account = SeedUserTable

\* no request yet, no cookie, an empty uploads directory
NoRequests ==
    /\ inflight = [h \in Handlers |-> Idle]
    /\ nreq = 0
    /\ last = NoResponse
    /\ authflight = [h \in Handlers |-> AuthIdle]
    /\ authLast = NoAuthResponse
    /\ cookie = NoToken
    /\ now = 0
    /\ seen = NotSeen
    /\ files = {}
    /\ cloud = {}
    /\ upflight = UpIdle
    /\ upLast = NoUpload
    /\ listLast = NoListing

\* the page as its script starts: the state object as declared, no request
\* sent, no editor open
NoClient ==
    /\ state = [query |-> <<>>, recipes |-> {}, filterTags |-> <<>>]
    /\ listCalls = {}
    /\ sent = 0
    /\ editor = "closed"
    /\ editorTags = <<>>

\* a server that has started and serves
InitServer ==
    /\ NoRequests
    /\ NoClient
    /\ startEnv = NoStartEnv
    /\ proc = [p \in Procs |-> Serving]
    /\ boots = 1

\* the server started on the seed store with no cloud backend configured
Init ==
    /\ InitStore
    /\ InitServer
    /\ env = NoEnv

\* a request is taken by the first free handler slot
FreeSlot(h) ==
    /\ inflight[h] = Idle
    /\ h = "h2" => inflight["h1"] # Idle

Respond(kind, status, error, caller, id, body) ==
    last' = [ kind |-> kind, status |-> status, error |-> error, caller |-> caller,
              id |-> id, body |-> body ]

Begin(h, pc, kind, caller, id, body) ==
    inflight' = [inflight EXCEPT ![h] =
        [ pc |-> pc, kind |-> kind, caller |-> caller, id |-> id,
          body |-> body, tagIds |-> [i \in DOMAIN body.tags |-> NoId] ]]

\* the status a handler answers before it writes anything, 0 if it goes on

\* POST /api/recipes: requireAuth, safeParse
PostStatus(caller, body) ==
    IF requireAuth(caller) # 0 THEN requireAuth(caller)
    ELSE IF ~RecipeUpsertValid(body) THEN 400
    ELSE 0

\* faulty variant of PutStatus: the permission is checked before the existence
PutStatusPermissionFirst(caller, id, body) ==
    IF requireAuth(caller) # 0 THEN requireAuth(caller)
    ELSE IF ~canEdit(caller, IF RecipeFindUnique(id) = {} THEN Null
                             ELSE (CHOOSE r \in RecipeFindUnique(id) : TRUE).ownerId) THEN 403
    ELSE IF RecipeFindUnique(id) = {} THEN 404
    ELSE IF ~RecipeUpsertValid(body) THEN 400
    ELSE 0

\* PUT /api/recipes/:id: requireAuth, findUnique, canEdit, safeParse
PutStatus(caller, id, body) ==
    IF requireAuth(caller) # 0 THEN requireAuth(caller)
    ELSE IF RecipeFindUnique(id) = {} THEN 404
    ELSE IF ~canEdit(caller, (CHOOSE r \in RecipeFindUnique(id) : TRUE).ownerId) THEN 403
    ELSE IF ~RecipeUpsertValid(body) THEN 400
    ELSE 0

\* DELETE /api/recipes/:id: requireAuth, findUnique, canEdit
DeleteStatus(caller, id) ==
    IF requireAuth(caller) # 0 THEN requireAuth(caller)
    ELSE IF RecipeFindUnique(id) = {} THEN 404
    ELSE IF ~canEdit(caller, (CHOOSE r \in RecipeFindUnique(id) : TRUE).ownerId) THEN 403
    ELSE 0

\* a request arrives and runs up to its first answer or its first store write
Receive(h, kind, caller, id, body, status) ==
    /\ FreeSlot(h)
    /\ nreq < MaxReqs
    /\ nreq' = nreq + 1
    /\ UNCHANGED <<db, nextRecipeId>>
    /\ UNCHANGED <<authVars, uploadVars, listVars, bootVars, clientVars>>
    /\ IF status # 0
       THEN /\ Respond(kind, status, Null, caller, id, NoBody)
            /\ UNCHANGED inflight
       ELSE /\ Begin(h, IF body.tags = <<>> THEN "write" ELSE "tags", kind, caller, id, body)
            /\ UNCHANGED last

PostRecipe(h, caller, body) ==
    Receive(h, "POST", caller, 0, body, PostStatus(caller, body))

PutRecipe(h, caller, id, body) ==
    Receive(h, "PUT", caller, id, body, PutStatus(caller, id, body))

DeleteRecipe(h, caller, id) ==
    Receive(h, "DELETE", caller, id, NoBody, DeleteStatus(caller, id))

\* the handler answers: res.json(...) after the write, or the catch block
Finish(h, status, error, id) ==
    LET r == inflight[h] IN
    /\ inflight' = [inflight EXCEPT ![h] = Idle]
    /\ Respond(r.kind, status, error, r.caller, id, r.body)

\* one of the upserts of Promise.all(tags.map(...)): tag i of the request;
\* an error it throws rejects the Promise.all and the catch block answers
TagUpsert(h, i) ==
    LET r == inflight[h] IN
    /\ r.pc = "tags"
    /\ i \in DOMAIN r.body.tags
    /\ r.tagIds[i] = NoId
    /\ LET t == r.body.tags[i]
           call == TagUpsertCall(t.name, t.color)
           ids == [r.tagIds EXCEPT ![i] = call.id]
       IN /\ tag' = call.table
          /\ IF call.error # Null
             THEN Finish(h, 500, call.error, r.id)
             ELSE /\ inflight' = [inflight EXCEPT ![h] =
                        [r EXCEPT !.tagIds = ids,
                                  !.pc = IF \E j \in DOMAIN ids : ids[j] = NoId
                                         THEN "tags" ELSE "write"]]
                  /\ UNCHANGED last
    /\ UNCHANGED <<recipe, recipeTag, block, nextRecipeId, nreq>>
    /\ UNCHANGED <<authVars, uploadVars, listVars, bootVars, clientVars>>


\* faulty variant of WriteError: a write to a recipe that is gone is no error
WriteErrorRowGone(r, down) ==
    IF down THEN "StoreDown"
    ELSE IF r.kind # "DELETE" /\ RecipeTagKeyConflict(r.tagIds) THEN "P2002 RecipeTag"
    ELSE Null

\* the error the nested write of request r throws, Null if it commits;
\* down is the store failing on its own
WriteError(r, down) ==
    IF down THEN "StoreDown"
    ELSE IF r.kind # "POST" /\ RecipeFindUnique(r.id) = {} THEN "P2025"
    ELSE IF r.kind # "DELETE" /\ RecipeTagKeyConflict(r.tagIds) THEN "P2002 RecipeTag"
    ELSE Null

\* prisma.recipe.create with nested recipeTags.create and blocks.create
RecipeCreate(h, down) ==
    LET r == inflight[h] IN
    /\ r.pc = "write" /\ r.kind = "POST"
    /\ UNCHANGED <<authVars, uploadVars, listVars, bootVars, clientVars>>
    /\ UNCHANGED <<tag, nreq>>
    /\ IF WriteError(r, down) # Null
       THEN /\ UNCHANGED <<recipe, recipeTag, block, nextRecipeId>>
            /\ Finish(h, 500, WriteError(r, down), 0)
       ELSE /\ recipe' = recipe \cup
                  {[id |-> nextRecipeId, name |-> r.body.name, ownerId |-> r.caller.id]}
            /\ recipeTag' = recipeTag \cup RecipeTagRows(nextRecipeId, r.tagIds)
            /\ block' = block (+) BlockRows(nextRecipeId, r.body.blocks)
            /\ nextRecipeId' = nextRecipeId + 1
            /\ Finish(h, 200, Null, nextRecipeId)

\* faulty variant of RecipeUpdate: the two child replacements are not one
\* transaction, and a store failure strikes between them
RecipeUpdateTorn(h, down) ==
    LET r == inflight[h] IN
    /\ r.pc = "write" /\ r.kind = "PUT"
    /\ UNCHANGED <<authVars, uploadVars, listVars, bootVars, clientVars>>
    /\ UNCHANGED <<tag, nextRecipeId, nreq>>
    /\ IF WriteError(r, down) # Null
       THEN /\ UNCHANGED <<recipe, block>>
            /\ recipeTag' = IF RecipeFindUnique(r.id) = {} \/ RecipeTagKeyConflict(r.tagIds)
                            THEN recipeTag
                            ELSE RecipeTagsWithout(r.id) \cup RecipeTagRows(r.id, r.tagIds)
            /\ Finish(h, 500, WriteError(r, down), r.id)
       ELSE /\ recipe' = { IF x.id = r.id THEN [x EXCEPT !.name = r.body.name] ELSE x
                           : x \in recipe }
            /\ recipeTag' = RecipeTagsWithout(r.id) \cup RecipeTagRows(r.id, r.tagIds)
            /\ block' = BlocksWithout(r.id) (+) BlockRows(r.id, r.body.blocks)
            /\ Finish(h, 200, Null, r.id)

\* faulty variant of RecipeUpdate: the caller becomes the owner
RecipeUpdateTakesOwnership(h, down) ==
    LET r == inflight[h] IN
    /\ r.pc = "write" /\ r.kind = "PUT"
    /\ UNCHANGED <<authVars, uploadVars, listVars, bootVars, clientVars>>
    /\ UNCHANGED <<tag, nextRecipeId, nreq>>
    /\ IF WriteError(r, down) # Null
       THEN /\ UNCHANGED <<recipe, recipeTag, block>>
            /\ Finish(h, 500, WriteError(r, down), r.id)
       ELSE /\ recipe' = { IF x.id = r.id
                           THEN [x EXCEPT !.name = r.body.name, !.ownerId = r.caller.id]
                           ELSE x : x \in recipe }
            /\ recipeTag' = RecipeTagsWithout(r.id) \cup RecipeTagRows(r.id, r.tagIds)
            /\ block' = BlocksWithout(r.id) (+) BlockRows(r.id, r.body.blocks)
            /\ Finish(h, 200, Null, r.id)

\* prisma.recipe.update with nested deleteMany and create of both child sets
RecipeUpdate(h, down) ==
    LET r == inflight[h] IN
    /\ r.pc = "write" /\ r.kind = "PUT"
    /\ UNCHANGED <<authVars, uploadVars, listVars, bootVars, clientVars>>
    /\ UNCHANGED <<tag, nextRecipeId, nreq>>
    /\ IF WriteError(r, down) # Null
       THEN /\ UNCHANGED <<recipe, recipeTag, block>>
            /\ Finish(h, 500, WriteError(r, down), r.id)
       ELSE /\ recipe' = { IF x.id = r.id THEN [x EXCEPT !.name = r.body.name] ELSE x
                           : x \in recipe }
            /\ recipeTag' = RecipeTagsWithout(r.id) \cup RecipeTagRows(r.id, r.tagIds)
            /\ block' = BlocksWithout(r.id) (+) BlockRows(r.id, r.body.blocks)
            /\ Finish(h, 200, Null, r.id)

\* faulty variant of RecipeDelete: the tags of the recipe are deleted with it
RecipeDeleteWithTags(h, down) ==
    LET r == inflight[h] IN
    /\ r.pc = "write" /\ r.kind = "DELETE"
    /\ UNCHANGED <<authVars, uploadVars, listVars, bootVars, clientVars>>
    /\ UNCHANGED <<nextRecipeId, nreq>>
    /\ IF WriteError(r, down) # Null
       THEN /\ UNCHANGED <<tag, recipe, recipeTag, block>>
            /\ Finish(h, 500, WriteError(r, down), r.id)
       ELSE /\ recipe' = { x \in recipe : x.id # r.id }
            /\ tag' = tag \ TagsOf(r.id)
            /\ recipeTag' = { rt \in recipeTag : rt.tagId \notin { t.id : t \in TagsOf(r.id) } }
            /\ block' = CascadeBlocks(r.id)
            /\ Finish(h, 200, Null, r.id)

\* prisma.recipe.delete
RecipeDelete(h, down) ==
    LET r == inflight[h] IN
    /\ r.pc = "write" /\ r.kind = "DELETE"
    /\ UNCHANGED <<authVars, uploadVars, listVars, bootVars, clientVars>>
    /\ UNCHANGED <<tag, nextRecipeId, nreq>>
    /\ IF WriteError(r, down) # Null
       THEN /\ UNCHANGED <<recipe, recipeTag, block>>
            /\ Finish(h, 500, WriteError(r, down), r.id)
       ELSE /\ recipe' = { x \in recipe : x.id # r.id }
            /\ recipeTag' = CascadeRecipeTags(r.id)
            /\ block' = CascadeBlocks(r.id)
            /\ Finish(h, 200, Null, r.id)

Next ==
    \/ \E h \in Handlers, c \in Callers, b \in Bodies : PostRecipe(h, c, b)
    \/ \E h \in Handlers, c \in Callers, id \in 1..nextRecipeId, b \in Bodies :
          PutRecipe(h, c, id, b)
    \/ \E h \in Handlers, c \in Callers, id \in 1..nextRecipeId : DeleteRecipe(h, c, id)
    \/ \E h \in Handlers : \E i \in DOMAIN inflight[h].body.tags : TagUpsert(h, i)
    \/ \E h \in Handlers, down \in BOOLEAN : RecipeCreate(h, down)
    \/ \E h \in Handlers, down \in BOOLEAN : RecipeUpdate(h, down)
    \/ \E h \in Handlers, down \in BOOLEAN : RecipeDelete(h, down)

Spec == Init /\ [][Next]_vars

---------------------------------------------------------------------------
(* Accounts: POST /api/auth/register, POST /api/auth/login, authOptional *)

\* a registration is taken by the first free handler slot
FreeAuthSlot(h) ==
    /\ authflight[h] = AuthIdle
    /\ h = "h2" => authflight["h1"] # AuthIdle

AuthRespond(kind, b, status, error, thrown, body, token) ==
    authLast' = [ kind |-> kind, email |-> b.email, password |-> b.password,
                  status |-> status, error |-> error, thrown |-> thrown,
                  body |-> body, cookie |-> token ]

\* register: the status it answers before it creates the row, 0 if it goes on
RegisterStatus(b) ==
    IF ~RegisterValid(b) THEN 400
    ELSE IF UserFindUnique(b.email) # {} THEN 409
    ELSE 0

\* register up to prisma.user.findUnique and its answer; bcrypt.hash and
\* prisma.user.create follow after other requests had their turn
Register(h, b) ==
    /\ FreeAuthSlot(h)
    /\ nreq < MaxReqs
    /\ nreq' = nreq + 1
    /\ UNCHANGED <<account, cookie, now, seen>>
    /\ UNCHANGED <<recipeVars, uploadVars, listVars, bootVars, clientVars>>
    /\ IF RegisterStatus(b) # 0
       THEN /\ AuthRespond("register", b, RegisterStatus(b),
                           IF RegisterStatus(b) = 400 THEN "Invalid payload"
                           ELSE "Email already used",
                           Null, NoIdentity, NoToken)
            /\ UNCHANGED authflight
       ELSE /\ authflight' = [authflight EXCEPT ![h] = [pc |-> "create", body |-> b]]
            /\ UNCHANGED authLast

\* the error prisma.user.create throws, Null if it inserts: the store failing
\* on its own, or the unique key of email
UserCreateError(b, down) ==
    IF down THEN "StoreDown"
    ELSE IF UserFindUnique(b.email) # {} THEN "P2002 User"
    ELSE Null

NewUserRow(b) ==
    [ id |-> UserIds[Cardinality(account) + 1], email |-> b.email,
      displayName |-> b.displayName, passwordHash |-> bcryptHash(b.password),
      role |-> "USER" ]

\* prisma.user.create, then signToken, setAuthCookie and the answer; or the
\* catch block
UserCreate(h, down) ==
    LET b == authflight[h].body IN
    /\ authflight[h].pc = "create"
    /\ authflight' = [authflight EXCEPT ![h] = AuthIdle]
    /\ UNCHANGED <<nreq, now, seen>>
    /\ UNCHANGED <<recipeVars, uploadVars, listVars, bootVars, clientVars>>
    /\ IF UserCreateError(b, down) # Null
       THEN /\ UNCHANGED <<account, cookie>>
            /\ AuthRespond("register", b, 500, "Server error", UserCreateError(b, down),
                           NoIdentity, NoToken)
       ELSE /\ account' = account \cup {NewUserRow(b)}
            /\ cookie' = signToken(Identity(NewUserRow(b)), now)
            /\ AuthRespond("register", b, 200, Null, Null, Identity(NewUserRow(b)),
                           signToken(Identity(NewUserRow(b)), now))

\* faulty variant of LoginResponse: an unknown email is told apart
LoginResponseRevealing(b) ==
    IF ~LoginValid(b)
    THEN [status |-> 400, error |-> "Invalid payload", body |-> NoIdentity, cookie |-> NoToken]
    ELSE IF UserFindUnique(b.email) = {}
    THEN [status |-> 404, error |-> "No such user", body |-> NoIdentity, cookie |-> NoToken]
    ELSE LET u == CHOOSE x \in UserFindUnique(b.email) : TRUE IN
         IF ~bcryptCompare(b.password, u.passwordHash)
         THEN [ status |-> 401, error |-> "Invalid email or password",
                body |-> NoIdentity, cookie |-> NoToken ]
         ELSE [ status |-> 200, error |-> Null, body |-> Identity(u),
                cookie |-> signToken(Identity(u), now) ]

\* login: status, error text or user of the body, cookie set
LoginResponse(b) ==
    IF ~LoginValid(b)
    THEN [status |-> 400, error |-> "Invalid payload", body |-> NoIdentity, cookie |-> NoToken]
    ELSE IF UserFindUnique(b.email) = {}
    THEN [ status |-> 401, error |-> "Invalid email or password",
           body |-> NoIdentity, cookie |-> NoToken ]
    ELSE LET u == CHOOSE x \in UserFindUnique(b.email) : TRUE IN
         IF ~bcryptCompare(b.password, u.passwordHash)
         THEN [ status |-> 401, error |-> "Invalid email or password",
                body |-> NoIdentity, cookie |-> NoToken ]
         ELSE [ status |-> 200, error |-> Null, body |-> Identity(u),
                cookie |-> signToken(Identity(u), now) ]

Login(b) ==
    /\ nreq < MaxReqs
    /\ nreq' = nreq + 1
    /\ AuthRespond("login", b, LoginResponse(b).status, LoginResponse(b).error, Null,
                   LoginResponse(b).body, LoginResponse(b).cookie)
    /\ cookie' = IF LoginResponse(b).status = 200 THEN LoginResponse(b).cookie ELSE cookie
    /\ UNCHANGED <<account, authflight, now, seen>>
    /\ UNCHANGED <<recipeVars, uploadVars, listVars, bootVars, clientVars>>

\* a day passes
Tick ==
    /\ now < MaxTime
    /\ now' = now + 1
    /\ UNCHANGED <<account, authflight, authLast, cookie, seen, nreq>>
    /\ UNCHANGED <<recipeVars, uploadVars, listVars, bootVars, clientVars>>

\* what a client can make of a token without the server's secret: another
\* role, another expiry, a signature under a key of its own
Tampered(token) ==
    { [token EXCEPT !.payload = [token.payload EXCEPT !.role = "ADMIN"]],
      [token EXCEPT !.exp = token.exp + TokenTtl],
      [token EXCEPT !.mac = Mac(token.payload, token.iat, token.exp, OtherKey)] }

\* the auth_token cookies a request can carry
Presented ==
    {NoToken, Garbage} \cup (IF cookie = NoToken THEN {} ELSE {cookie} \cup Tampered(cookie))

\* a request passes the authOptional middleware
AuthOptional(token) ==
    /\ seen' = [ token |-> token, at |-> now, user |-> authOptional(token, now).user,
                 next |-> authOptional(token, now).next,
                 status |-> authOptional(token, now).status ]
    /\ UNCHANGED <<account, authflight, authLast, cookie, now, nreq>>
    /\ UNCHANGED <<recipeVars, uploadVars, listVars, bootVars, clientVars>>

AuthNext ==
    \/ \E h \in Handlers, b \in RegisterBodies : Register(h, b)
    \/ \E h \in Handlers, down \in BOOLEAN : UserCreate(h, down)
    \/ \E b \in LoginBodies : Login(b)
    \/ Tick
    \/ \E token \in Presented : AuthOptional(token)

AuthSpec == Init /\ [][AuthNext]_vars

---------------------------------------------------------------------------
(* Uploads: POST /api/uploads *)

\* the file multer's diskStorage writes: `${Date.now()}_${safe}` in the
\* uploads directory; the number of the request stands for the clock
DiskPath(f) == [n |-> nreq + 1, name |-> f.name]

UpRespond(caller, f, status, error, url, path, calls) ==
    upLast' = [ caller |-> caller, file |-> f, status |-> status, error |-> error,
                url |-> url, path |-> path, calls |-> calls ]

\* requireAuth, then upload.single('photo') starts: a body without a file
\* part goes through to the handler, which answers 'No file'; a file part of
\* another field is refused before it is stored; the file of the photo field
\* is written to the uploads directory
UploadReceive(caller, f) ==
    /\ upflight = UpIdle
    /\ nreq < MaxReqs
    /\ nreq' = nreq + 1
    /\ UNCHANGED <<env, cloud>>
    /\ UNCHANGED <<recipeVars, authVars, listVars, bootVars, clientVars>>
    /\ IF requireAuth(caller) # 0
       THEN /\ UpRespond(caller, f, requireAuth(caller), "Not authenticated", NoUrl,
                         NoPath, <<>>)
            /\ UNCHANGED <<files, upflight>>
       ELSE IF f = NoFile
       THEN /\ UpRespond(caller, f, 400, "No file", NoUrl, NoPath, <<>>)
            /\ UNCHANGED <<files, upflight>>
       ELSE IF f.field # "photo"
       THEN /\ UpRespond(caller, f, 400, "Invalid upload", NoUrl, NoPath, <<>>)
            /\ UNCHANGED <<files, upflight>>
       ELSE /\ files' = files \cup {DiskPath(f)}
            /\ upflight' = [ pc |-> "multer", caller |-> caller, file |-> f,
                             path |-> DiskPath(f), calls |-> <<>> ]
            /\ UNCHANGED upLast

\* faulty variant of MulterDone: the part of the file that was written stays
MulterDoneKeepsPartial ==
    LET u == upflight IN
    /\ u.pc = "multer"
    /\ UNCHANGED <<env, cloud, nreq, files>>
    /\ UNCHANGED <<recipeVars, authVars, listVars, bootVars, clientVars>>
    /\ IF u.file.size > MaxFileSize
       THEN /\ UpRespond(u.caller, u.file, 413, "Photo too large (max 10MB)", NoUrl,
                         u.path, <<>>)
            /\ upflight' = UpIdle
       ELSE IF UploadBackend = "local"
       THEN /\ UpRespond(u.caller, u.file, 200, Null,
                         [backend |-> "local", path |-> u.path], u.path, <<>>)
            /\ upflight' = UpIdle
       ELSE /\ upflight' = [u EXCEPT !.pc = UploadBackend]
            /\ UNCHANGED upLast

\* upload.single('photo') ends: past the size limit multer removes what it
\* wrote and the endpoint answers 413; else the handler runs up to its first
\* await, which is the cloud call, or answers the local URL
MulterDone ==
    LET u == upflight IN
    /\ u.pc = "multer"
    /\ UNCHANGED <<env, cloud, nreq>>
    /\ UNCHANGED <<recipeVars, authVars, listVars, bootVars, clientVars>>
    /\ IF u.file.size > MaxFileSize
       THEN /\ files' = files \ {u.path}
            /\ UpRespond(u.caller, u.file, 413, "Photo too large (max 10MB)", NoUrl,
                         u.path, <<>>)
            /\ upflight' = UpIdle
       ELSE IF UploadBackend = "local"
       THEN /\ UNCHANGED files
            /\ UpRespond(u.caller, u.file, 200, Null,
                         [backend |-> "local", path |-> u.path], u.path, <<>>)
            /\ upflight' = UpIdle
       ELSE /\ UNCHANGED files
            /\ upflight' = [u EXCEPT !.pc = UploadBackend]
            /\ UNCHANGED upLast

\* the call of a cloud backend and what follows it: on success the unlink of
\* the temp file, which may fail and is ignored, and the backend's URL; on
\* failure the 500 of the catch block
CloudUpload(backend, ok, unlinked) ==
    LET u == upflight
        calls == Append(u.calls, [backend |-> backend, ok |-> ok])
    IN
    /\ u.pc = backend
    /\ upflight' = UpIdle
    /\ UNCHANGED <<env, nreq>>
    /\ UNCHANGED <<recipeVars, authVars, listVars, bootVars, clientVars>>
    /\ IF ok
       THEN /\ cloud' = cloud \cup {[backend |-> backend, path |-> u.path]}
            /\ files' = IF unlinked THEN files \ {u.path} ELSE files
            /\ UpRespond(u.caller, u.file, 200, Null,
                         [backend |-> backend, path |-> u.path], u.path, calls)
       ELSE /\ UNCHANGED <<cloud, files>>
            /\ UpRespond(u.caller, u.file, 500, "Upload failed", NoUrl, u.path, calls)

\* faulty variant of CloudinaryUpload: a failed call falls back to the local
\* file
CloudinaryUploadFallsBack(ok, unlinked) ==
    LET u == upflight
        calls == Append(u.calls, [backend |-> "cloudinary", ok |-> ok])
    IN
    /\ u.pc = "cloudinary"
    /\ upflight' = UpIdle
    /\ UNCHANGED <<env, nreq>>
    /\ UNCHANGED <<recipeVars, authVars, listVars, bootVars, clientVars>>
    /\ IF ok
       THEN /\ cloud' = cloud \cup {[backend |-> "cloudinary", path |-> u.path]}
            /\ files' = IF unlinked THEN files \ {u.path} ELSE files
            /\ UpRespond(u.caller, u.file, 200, Null,
                         [backend |-> "cloudinary", path |-> u.path], u.path, calls)
       ELSE /\ UNCHANGED <<cloud, files>>
            /\ UpRespond(u.caller, u.file, 200, Null,
                         [backend |-> "local", path |-> u.path], u.path, calls)

\* cloudinary.uploader.upload and the inner try / catch
CloudinaryUpload(ok, unlinked) == CloudUpload("cloudinary", ok, unlinked)

\* createGoogleStorageClient, bucket.upload and the outer catch
GcsUpload(ok, unlinked) == CloudUpload("gcs", ok, unlinked)

\* the server started with any setting of the variables it reads
UploadInit ==
    /\ InitStore
    /\ InitServer
    /\ env \in Envs

\* uploads by every caller, and the recipe writes of an anonymous caller
UploadNext ==
    \/ \E c \in Callers, f \in UploadFiles : UploadReceive(c, f)
    \/ MulterDone
    \/ \E ok \in BOOLEAN, unlinked \in BOOLEAN : CloudinaryUpload(ok, unlinked)
    \/ \E ok \in BOOLEAN, unlinked \in BOOLEAN : GcsUpload(ok, unlinked)
    \/ \E h \in Handlers, b \in Bodies : PostRecipe(h, NoUser, b)
    \/ \E h \in Handlers, id \in 1..nextRecipeId, b \in Bodies : PutRecipe(h, NoUser, id, b)
    \/ \E h \in Handlers, id \in 1..nextRecipeId : DeleteRecipe(h, NoUser, id)

UploadSpec == UploadInit /\ [][UploadNext]_vars

---------------------------------------------------------------------------
(* Recipe list: GET /api/recipes *)

\* the recipes a listed store holds at most
MaxListed == 2

\* the characters of the names the model uses
Chars(name) ==
    CASE name = "Soup" -> <<"S", "o", "u", "p">>
      [] name = "Stew" -> <<"S", "t", "e", "w">>
      [] name = "Vegan" -> <<"V", "e", "g", "a", "n">>

\* the q parameter as the characters the client sent: none, a blank, parts
\* of names in lower and in upper case, one with blanks around it, and one
\* that is in no name
Queries ==
    { <<>>, <<" ">>, <<"s", "o">>, <<"S", "O">>, <<" ", "s", "o", " ">>,
      <<"v", "e">>, <<"x">> }

\* the tagIds parameter
TagIdSets == SUBSET {GreenId, RedId}

\* String.prototype.trim
RECURSIVE Trim(_)
Trim(q) ==
    IF q = <<>> THEN q
    ELSE IF Head(q) = " " THEN Trim(Tail(q))
    ELSE IF q[Len(q)] = " " THEN Trim(SubSeq(q, 1, Len(q) - 1))
    ELSE q

\* case folding of mode: 'insensitive'
Lower(c) ==
    CASE c = "S" -> "s"
      [] c = "O" -> "o"
      [] c = "V" -> "v"
      [] c = "E" -> "e"
      [] OTHER -> c

LowerAll(t) == [i \in DOMAIN t |-> Lower(t[i])]

\* faulty variant of ContainsInsensitive: the case is compared
ContainsSensitive(name, q) ==
    \E i \in 0..(Len(Chars(name)) - Len(q)) :
        SubSeq(Chars(name), i + 1, i + Len(q)) = q

\* { contains: q, mode: 'insensitive' } on a name column
ContainsInsensitive(name, q) ==
    \E i \in 0..(Len(Chars(name)) - Len(q)) :
        SubSeq(LowerAll(Chars(name)), i + 1, i + Len(q)) = LowerAll(q)

\* the where clause of findMany for the trimmed query q: none for the empty
\* text, else name or the name of some associated tag contains q
RecipeWhere(q) ==
    IF q = <<>> THEN recipe
    ELSE { r \in recipe :
             \/ ContainsInsensitive(r.name, q)
             \/ \E t \in TagsOf(r.id) : ContainsInsensitive(t.name, q) }

\* faulty variant of FirstPhotoUrl: the first PHOTO block of the recipe
FirstPhotoUrlAnyPhoto(id) ==
    LET rows == SortByOrder(BlocksOf(id))
        photos == { i \in DOMAIN rows : rows[i].type = "PHOTO" }
    IN IF photos = {} THEN Null
       ELSE rows[CHOOSE i \in photos : \A j \in photos : i <= j].photoUrl

\* blocks: { orderBy: { order: 'asc' }, take: 1 }, then
\* r.blocks[0]?.type === 'PHOTO' ? r.blocks[0].photoUrl : null
FirstPhotoUrl(id) ==
    LET rows == SortByOrder(BlocksOf(id))
        taken == IF rows = <<>> THEN <<>> ELSE <<rows[1]>>
    IN IF taken # <<>> /\ taken[1].type = "PHOTO" THEN taken[1].photoUrl ELSE Null

\* one item of the answer; the sequence of the items (updatedAt desc) is not
\* represented
ListItem(r) ==
    [ id |-> r.id, name |-> r.name, ownerId |-> r.ownerId,
      ownerDisplayName |-> (CHOOSE u \in account : u.id = r.ownerId).displayName,
      tags |-> TagsOf(r.id), firstPhotoUrl |-> FirstPhotoUrl(r.id) ]

\* GET /api/recipes: q is read and trimmed; no other parameter is read
ListRecipes(q, tagIds) ==
    /\ listLast' = [ q |-> q, tagIds |-> tagIds, status |-> 200,
                     items |-> { ListItem(r) : r \in RecipeWhere(Trim(q)) } ]
    /\ UNCHANGED <<recipeVars, nreq, authVars, uploadVars, bootVars, clientVars>>

\* what POST /api/recipes of u1 can have written for one recipe
Cards ==
    [ name : {"Soup", "Stew"}, tagIds : {<<>>, <<GreenId>>, <<RedId>>, <<GreenId, RedId>>},
      blocks : BlockLists \ {<<>>} ]

RECURSIVE CardBlocks(_, _)
CardBlocks(cards, n) ==
    IF n = 0 THEN EmptyBag
    ELSE CardBlocks(cards, n - 1) (+) BlockRows(n, cards[n].blocks)

\* the server on a store of up to MaxListed recipes of the seed account,
\* with both tags in the Tag table
ListInit ==
    /\ \E n \in 0..MaxListed : \E cards \in [1..n -> Cards] :
          /\ recipe = { [id |-> i, name |-> cards[i].name, ownerId |-> "u1"] : i \in 1..n }
          /\ recipeTag = UNION { RecipeTagRows(i, cards[i].tagIds) : i \in 1..n }
          /\ block = CardBlocks(cards, n)
          /\ nextRecipeId = n + 1
    /\ tag = SeedTagTable \cup {[id |-> RedId, name |-> "Vegan", color |-> "red"]}
    /\ account = SeedUserTable
    /\ InitServer
    /\ env = NoEnv

ListNext == \E q \in Queries, tagIds \in TagIdSets : ListRecipes(q, tagIds)

ListSpec == ListInit /\ [][ListNext]_vars

---------------------------------------------------------------------------
(* Startup: start.ts, then index.ts with ensureAdminUser and app.listen *)

\* ensureAdminUser goes past its first return: both variables are non-empty
AdminConfigured(e) == e.ADMIN_EMAIL # NotSet /\ e.ADMIN_PASSWORD \notin {Null, ""}

\* the row ensureAdminUser creates
AdminRow(e) ==
    [ id |-> UserIds[Cardinality(account) + 1], email |-> e.ADMIN_EMAIL,
      displayName |-> "Admin", passwordHash |-> bcryptHash(e.ADMIN_PASSWORD),
      role |-> "ADMIN" ]

\* import('./index.js'): the module runs ensureAdminUser up to its first
\* return or its first store call
Imported(r) ==
    [r EXCEPT !.pc = IF AdminConfigured(startEnv) THEN "find" ELSE "settled"]

\* faulty variant of Rejected: nothing catches the rejection and the process
\* ends
RejectedUncaught(r, e) == [r EXCEPT !.pc = "exited", !.code = 1, !.err = e]

\* ensureAdminUser rejects with e: .catch logs it
RejectedWith(r, e) == [r EXCEPT !.pc = "settled", !.err = e]

BootFrame == UNCHANGED <<recipeVars, nreq, uploadVars, listVars, startEnv, clientVars>>

AuthFrame == UNCHANGED <<authflight, authLast, cookie, now, seen>>

\* node dist/start.js up to the spawn of the push, the exit, or the import
Start(p) ==
    /\ proc[p].pc = "off"
    /\ p = "p2" => proc["p1"].pc # "off"
    /\ boots < MaxBoots
    /\ boots' = boots + 1
    /\ proc' = [proc EXCEPT ![p] =
          IF shouldAutoDbPush(startEnv)
          THEN IF ~startEnv.DATABASE_URL
               THEN [Off EXCEPT !.pc = "exited", !.code = 1]
               ELSE [Off EXCEPT !.pc = "push"]
          ELSE Imported(Off)]
    /\ UNCHANGED account
    /\ AuthFrame /\ BootFrame

\* faulty variant of PushExit: the server is loaded whatever the push did
PushExitIgnored(p, outcome) ==
    /\ proc[p].pc = "push"
    /\ proc' = [proc EXCEPT ![p] =
          Imported([proc[p] EXCEPT !.push = IF outcome = "0" THEN "ok" ELSE "failed"])]
    /\ UNCHANGED <<account, boots>>
    /\ AuthFrame /\ BootFrame

\* the prisma db push child ends: runPrismaDbPush resolves on exit code 0
\* and start.ts imports the server, or it rejects and start.ts exits with 1
PushExit(p, outcome) ==
    /\ proc[p].pc = "push"
    /\ proc' = [proc EXCEPT ![p] =
          IF outcome = "0"
          THEN Imported([proc[p] EXCEPT !.push = "ok"])
          ELSE [proc[p] EXCEPT !.pc = "exited", !.code = 1, !.push = "failed"]]
    /\ UNCHANGED <<account, boots>>
    /\ AuthFrame /\ BootFrame

\* prisma.user.findUnique of ensureAdminUser answers
AdminFind(p, down) ==
    /\ proc[p].pc = "find"
    /\ proc' = [proc EXCEPT ![p] =
          IF down THEN RejectedWith(proc[p], "StoreDown")
          ELSE IF UserFindUnique(startEnv.ADMIN_EMAIL) # {}
          THEN [proc[p] EXCEPT !.pc = "settled"]
          ELSE [proc[p] EXCEPT !.pc = "create"]]
    /\ UNCHANGED <<account, boots>>
    /\ AuthFrame /\ BootFrame

\* faulty variant of AdminCreate: the row is inserted without a look at the
\* rows that are there
AdminCreateTwice(p, down) ==
    /\ proc[p].pc = "create"
    /\ IF down
       THEN /\ proc' = [proc EXCEPT ![p] = RejectedWith(proc[p], "StoreDown")]
            /\ UNCHANGED account
       ELSE /\ account' = account \cup {AdminRow(startEnv)}
            /\ proc' = [proc EXCEPT ![p] = [proc[p] EXCEPT !.pc = "settled", !.created = TRUE]]
    /\ UNCHANGED boots
    /\ AuthFrame /\ BootFrame

\* bcrypt.hash and prisma.user.create of ensureAdminUser
AdminCreate(p, down) ==
    /\ proc[p].pc = "create"
    /\ LET e == UserCreateError([email |-> startEnv.ADMIN_EMAIL], down) IN
       IF e # Null
       THEN /\ proc' = [proc EXCEPT ![p] = RejectedWith(proc[p], e)]
            /\ UNCHANGED account
       ELSE /\ account' = account \cup {AdminRow(startEnv)}
            /\ proc' = [proc EXCEPT ![p] = [proc[p] EXCEPT !.pc = "settled", !.created = TRUE]]
    /\ UNCHANGED boots
    /\ AuthFrame /\ BootFrame

\* .finally: app.listen
Listen(p) ==
    /\ proc[p].pc = "settled"
    /\ proc' = [proc EXCEPT ![p].pc = "listening"]
    /\ UNCHANGED <<account, boots>>
    /\ AuthFrame /\ BootFrame

\* a process that serves or has exited is taken down, to be started again
Stop(p) ==
    /\ proc[p].pc \in {"listening", "exited"}
    /\ proc' = [proc EXCEPT ![p] = Off]
    /\ UNCHANGED <<account, boots>>
    /\ AuthFrame /\ BootFrame

\* the seed store, no process running, any environment
BootInit ==
    /\ InitStore
    /\ NoRequests
    /\ NoClient
    /\ env = NoEnv
    /\ startEnv \in StartEnvs
    /\ proc = [p \in Procs |-> Off]
    /\ boots = 0

BootNext ==
    \/ \E p \in Procs : Start(p)
    \/ \E p \in Procs, outcome \in PushOutcomes : PushExit(p, outcome)
    \/ \E p \in Procs, down \in BOOLEAN : AdminFind(p, down)
    \/ \E p \in Procs, down \in BOOLEAN : AdminCreate(p, down)
    \/ \E p \in Procs : Listen(p)
    \/ \E p \in Procs : Stop(p)

BootSpec == BootInit /\ [][BootNext]_vars

\* a store call of ensureAdminUser resolves or rejects in the end, and the
\* event loop runs the callback of a settled promise
BootLiveSpec ==
    /\ BootSpec
    /\ \A p \in Procs :
          /\ WF_vars(\E down \in BOOLEAN : AdminFind(p, down))
          /\ WF_vars(\E down \in BOOLEAN : AdminCreate(p, down))
          /\ WF_vars(Listen(p))

---------------------------------------------------------------------------
(* Client: main.ts, the search box and the recipe editor *)

\* list requests the model follows
MaxSearches == 3

\* entries the editor's tag list holds at most in the model
MaxTags == 3

\* what the user types into the search box
SearchTexts == { <<>>, <<"s", "o">>, <<"x">> }

\* what the user types into the editor's tag name field, and the colours of
\* the colour input
TagNames == {"", "Vegan", "vegan", "Nuts"}

TagColors == {"green", "red"}

\* String.prototype.toLowerCase on the names and colours the model uses
LowerText(t) == IF t = "Vegan" THEN "vegan" ELSE t

\* the members of a set in a row
RECURSIVE SeqOf(_)
SeqOf(S) ==
    IF S = {} THEN <<>>
    ELSE LET x == CHOOSE y \in S : TRUE IN <<x>> \o SeqOf(S \ {x})

tagKey(t) ==
    IF t.id # NoId
    THEN [kind |-> "id", id |-> t.id, name |-> "", color |-> ""]
    ELSE [kind |-> "nc", id |-> NoId, name |-> LowerText(t.name), color |-> LowerText(t.color)]

\* api.listTags against this server: it has no /api/tags route, apiFetch
\* throws on the 404, and both callers catch it and take no suggestions
tagSuggestions == <<>>

\* GET /api/recipes as api.listRecipes(q, tagIds) calls it
ListAnswer(q, ids) == { ListItem(r) : r \in RecipeWhere(Trim(q)) }

\* refreshRecipes up to its await: the ids of the filter tags that have one
FilterIds(filterTags) ==
    LET withId == SelectSeq(filterTags, LAMBDA t : t.id # NoId)
    IN [i \in DOMAIN withId |-> withId[i].id]

EditorFrame == UNCHANGED <<editor, editorTags>>

SearchFrame == UNCHANGED <<state, listCalls, sent>>

ServerFrame == UNCHANGED <<recipeVars, nreq, authVars, uploadVars, listVars, bootVars>>

\* searchInput oninput: state.query is set and refreshRecipes sends the list
\* request
SearchInput(q) ==
    /\ sent < MaxSearches
    /\ sent' = sent + 1
    /\ state' = [state EXCEPT !.query = q]
    /\ listCalls' = listCalls \cup
          {[n |-> sent + 1, q |-> q, ids |-> FilterIds(state.filterTags)]}
    /\ EditorFrame /\ ServerFrame

\* the response of a list request arrives and refreshRecipes goes on after
\* its await: state.recipes is assigned
ListResponse(c) ==
    /\ c \in listCalls
    /\ listCalls' = listCalls \ {c}
    /\ state' = [state EXCEPT !.recipes = ListAnswer(c.q, c.ids)]
    /\ UNCHANGED sent
    /\ EditorFrame /\ ServerFrame

\* openRecipeEditorModal: for a new recipe (id 0), or with the tags of the
\* recipe as GET /api/recipes/:id returned them
OpenEditor(id) ==
    /\ editor = "closed"
    /\ editor' = "open"
    /\ editorTags' =
          IF id = 0 THEN <<>>
          ELSE LET ts == SeqOf(GetRecipe(id).tags)
               IN [i \in DOMAIN ts |-> [id |-> ts[i].id, name |-> ts[i].name, color |-> ts[i].color]]
    /\ SearchFrame /\ ServerFrame

\* the modal is closed
CloseEditor ==
    /\ editor = "open"
    /\ editor' = "closed"
    /\ editorTags' = <<>>
    /\ SearchFrame /\ ServerFrame

addTagToRecipe(list, t) ==
    IF \E i \in DOMAIN list : tagKey(list[i]) = tagKey(t) THEN list
    ELSE Append(list, t)

\* addTag onclick: the name typed, trimmed, and the colour of the input
AddTag(n, color) ==
    /\ editor = "open"
    /\ Len(editorTags) < MaxTags
    /\ editorTags' =
          IF n = "" THEN editorTags
          ELSE LET found == { i \in DOMAIN tagSuggestions :
                               LowerText(tagSuggestions[i].name) = LowerText(n) }
               IN IF found # {}
                  THEN addTagToRecipe(editorTags,
                          tagSuggestions[CHOOSE i \in found : \A j \in found : i <= j])
                  ELSE addTagToRecipe(editorTags, [id |-> NoId, name |-> n, color |-> color])
    /\ UNCHANGED editor
    /\ SearchFrame /\ ServerFrame

\* the remove handler of the pill at index idx: tags.splice(idx, 1)
RemoveTag(idx) ==
    /\ editor = "open"
    /\ idx \in DOMAIN editorTags
    /\ editorTags' = [i \in 1..(Len(editorTags) - 1) |->
                         IF i < idx THEN editorTags[i] ELSE editorTags[i + 1]]
    /\ UNCHANGED editor
    /\ SearchFrame /\ ServerFrame

\* the page after boot(): the first list request is answered and the top
\* bar is rendered
ClientInit ==
    /\ InitStore
    /\ NoRequests
    /\ env = NoEnv
    /\ startEnv = NoStartEnv
    /\ proc = [p \in Procs |-> Serving]
    /\ boots = 1
    /\ state = [query |-> <<>>, recipes |-> ListAnswer(<<>>, <<>>), filterTags |-> <<>>]
    /\ listCalls = {}
    /\ sent = 0
    /\ editor = "closed"
    /\ editorTags = <<>>

ClientNext ==
    \/ \E q \in SearchTexts : SearchInput(q)
    \/ \E c \in listCalls : ListResponse(c)
    \/ \E id \in 0..1 : OpenEditor(id)
    \/ CloseEditor
    \/ \E n \in TagNames, color \in TagColors : AddTag(n, color)
    \/ \E idx \in DOMAIN editorTags : RemoveTag(idx)

ClientSpec == ClientInit /\ [][ClientNext]_vars

---------------------------------------------------------------------------
(* What the claims speak of *)

Range(s) == { s[i] : i \in DOMAIN s }

\* the block inputs a GET response shows, in its sequence
Contents(blocks) ==
    [ i \in DOMAIN blocks |->
        [type |-> blocks[i].type, text |-> blocks[i].text, photoUrl |-> blocks[i].photoUrl] ]

Orders(blocks) == [ i \in DOMAIN blocks |-> blocks[i].order ]

\* the (name, color) pairs of a set of Tag rows
Pairs(tags) == { [name |-> t.name, color |-> t.color] : t \in tags }

\* number of Block rows of recipe id with order k in table blk
RowsAt(blk, id, k) ==
    LET S == { b \in DOMAIN blk : b.recipeId = id /\ b.order = k }
        RECURSIVE Sum(_)
        Sum(T) == IF T = {} THEN 0
                  ELSE LET x == CHOOSE y \in T : TRUE IN blk[x] + Sum(T \ {x})
    IN Sum(S)

\* number of Block rows of recipe id in table blk
CountBlocks(blk, id) ==
    LET S == { b \in DOMAIN blk : b.recipeId = id }
        RECURSIVE Sum(_)
        Sum(T) == IF T = {} THEN 0
                  ELSE LET x == CHOOSE y \in T : TRUE IN blk[x] + Sum(T \ {x})
    IN Sum(S)

\* table blk holds for recipe id exactly the blocks of the array, at their indices
StoredAs(blk, id, blocks) ==
    /\ CountBlocks(blk, id) = Len(blocks)
    /\ \A i \in DOMAIN blocks :
          \E b \in DOMAIN blk :
             /\ b.recipeId = id /\ b.order = i - 1 /\ blk[b] = 1
             /\ b.type = blocks[i].type
             /\ b.text = blocks[i].text
             /\ b.photoUrl = blocks[i].photoUrl

\* the RecipeTag rows of recipe id in table rtg
AssocOf(rtg, id) == { rt \in rtg : rt.recipeId = id }

---------------------------------------------------------------------------
\* C1: while the answer to a successful PUT is the last answer given, GET of
\* that recipe returns the blocks of the PUT body, same content in the same
\* sequence, and exactly the tags of the PUT body; nothing older remains.
C1_PutReplacesAll ==
    (last.kind = "PUT" /\ last.status = 200) =>
        LET g == GetRecipe(last.id) IN
        /\ g.status = 200
        /\ Contents(g.blocks) = last.body.blocks
        /\ Pairs(g.tags) = Range(last.body.tags)
        /\ Cardinality(AssocOf(recipeTag, last.id)) = Cardinality(Range(last.body.tags))
        /\ CountBlocks(block, last.id) = Len(last.body.blocks)

\* the seed recipe (two blocks, tag green) updated, as the only request so
\* far, to fewer blocks and without its old tag
C1_Witness ==
    /\ nreq = 1 /\ last.kind = "PUT" /\ last.status = 200 /\ last.id = 1
    /\ Len(last.body.blocks) < Len(SeedBlocks)
    /\ Green \notin Range(last.body.tags)
    /\ Len(GetRecipe(1).blocks) = Len(last.body.blocks)

\* C2: every stored recipe has at least one block, the order values of its
\* blocks are 0..n-1, each once, and after an accepted write the blocks stand
\* at the indices of the submitted array.
C2_OrderContiguous ==
    /\ \A r \in recipe :
          LET n == CountBlocks(block, r.id) IN
          /\ n >= 1
          /\ \A k \in 0..(n - 1) : RowsAt(block, r.id, k) = 1
    /\ (last.status = 200 /\ last.kind \in {"POST", "PUT"}) =>
          /\ StoredAs(block, last.id, last.body.blocks)
          /\ Orders(GetRecipe(last.id).blocks) = [i \in DOMAIN last.body.blocks |-> i - 1]

\* a recipe written with three blocks, then a request that was rejected
C2_Witness ==
    /\ nreq = 2 /\ last.status \in {400, 403, 404}
    /\ \E r \in recipe : CountBlocks(block, r.id) = 3

\* the Block rows of recipe id in table blk, as a bag
BlocksIn(blk, id) == [ b \in { x \in DOMAIN blk : x.recipeId = id } |-> blk[b] ]

\* the (name, color) pairs recipe id is associated with, in tables tg and rtg
PairsIn(tg, rtg, id) ==
    Pairs({ t \in tg : \E rt \in rtg : rt.recipeId = id /\ rt.tagId = t.id })

\* the caller is the owner of the stored recipe id, or an ADMIN
Permitted(c, id) ==
    \E r \in recipe : r.id = id /\ (c.id = r.ownerId \/ c.role = "ADMIN")

\* this step receives a request and answers it at once
Rejected == nreq' = nreq + 1 /\ inflight' = inflight

\* this step receives a request that handler h goes on with
Accepted(h) == inflight[h] = Idle /\ inflight'[h] # Idle

\* this step is the write of handler h, with its answer
Wrote(h) == inflight[h].pc = "write" /\ inflight'[h] = Idle

Edits == {"PUT", "DELETE"}

---------------------------------------------------------------------------
\* C3: the write step of a PUT, whether it answers 200 or 500, leaves the
\* recipe with both child sets of the body (blocks and tag associations) or
\* with both child sets it had before; never one new and one old.
C3_PutAllOrNothing ==
    [][ \A h \in Handlers :
          LET r == inflight[h] IN
          (Wrote(h) /\ r.kind = "PUT") =>
             \/ /\ last'.status = 200
                /\ StoredAs(block', r.id, r.body.blocks)
                /\ PairsIn(tag', recipeTag', r.id) = Range(r.body.tags)
                /\ Cardinality(AssocOf(recipeTag', r.id)) = Cardinality(Range(r.body.tags))
             \/ /\ last'.status = 500
                /\ BlocksIn(block', r.id) = BlocksIn(block, r.id)
                /\ AssocOf(recipeTag', r.id) = AssocOf(recipeTag, r.id)
      ]_vars

\* a PUT on the seed recipe, with other tags and other blocks, ended in a
\* ServerError and the recipe has the seed's blocks and the seed's tag
C3_Witness ==
    /\ nreq = 1 /\ last.kind = "PUT" /\ last.status = 500 /\ last.id = 1
    /\ last.body.tags = <<Red>>
    /\ StoredAs(block, 1, SeedBlocks)
    /\ PairsIn(tag, recipeTag, 1) = {Green}

\* C4: when a create or update is answered 500 after a store failure, the
\* Recipe, Block, RecipeTag and Tag tables are what they were before the
\* request (stated for a request that is the only one the server has
\* received, so that the tables before it are the initial ones).
C4_FailedWriteCommitsNothing ==
    (nreq = 1 /\ last.status = 500 /\ last.kind \in {"POST", "PUT"}) =>
        /\ recipe = SeedRecipeTable
        /\ block = SeedBlockTable
        /\ recipeTag = SeedRecipeTagTable
        /\ tag = SeedTagTable

\* C5: a PUT or DELETE on a stored recipe by an authenticated caller is
\* answered 403 exactly when the caller is neither the owner nor an ADMIN,
\* and then recipe, blocks and tag associations are unchanged; a handler goes
\* on to the write, and a write changes the store, only for the owner or an
\* ADMIN.
C5_OwnerOrAdmin ==
    [][ /\ (Rejected /\ last'.kind \in Edits /\ last'.caller # NoUser
                      /\ RecipeFindUnique(last'.id) # {}) =>
              /\ (last'.status = 403) <=> ~Permitted(last'.caller, last'.id)
              /\ UNCHANGED <<recipe, recipeTag, block>>
        /\ \A h \in Handlers :
              (Accepted(h) /\ inflight'[h].kind \in Edits) =>
                  Permitted(inflight'[h].caller, inflight'[h].id)
        /\ \A h \in Handlers :
              (Wrote(h) /\ inflight[h].kind \in Edits
                        /\ <<recipe, recipeTag, block>>' # <<recipe, recipeTag, block>>) =>
                  /\ Permitted(inflight[h].caller, inflight[h].id)
                  /\ last'.status = 200
      ]_vars

\* u2 was answered 403 on the recipe of u1 while an ADMIN's edit of the same
\* recipe has passed the check
C5_Witness ==
    /\ last.kind \in Edits /\ last.status = 403 /\ last.caller.id = "u2" /\ last.id = 1
    /\ \E r \in recipe : r.id = 1 /\ r.ownerId = "u1"
    /\ \E h \in Handlers :
          /\ inflight[h].kind \in Edits /\ inflight[h].id = 1
          /\ inflight[h].caller.role = "ADMIN"

\* C6: a PUT or DELETE by an authenticated caller on an id that is not
\* stored is answered 404, whoever the caller is, and never 403; no handler
\* goes on with such a request.
C6_NotFoundFirst ==
    [][ /\ (Rejected /\ last'.kind \in Edits /\ last'.caller # NoUser) =>
              ((last'.status = 404) <=> (RecipeFindUnique(last'.id) = {}))
        /\ \A h \in Handlers :
              (Accepted(h) /\ inflight'[h].kind \in Edits) =>
                  RecipeFindUnique(inflight'[h].id) # {}
      ]_vars

\* u2, a USER who is not the owner of recipe 1, is answered 404 for recipe 1
\* once it is deleted
C6_Witness ==
    /\ last.kind \in Edits /\ last.status = 404 /\ last.id = 1
    /\ last.caller.id = "u2" /\ last.caller.role = "USER"
    /\ RecipeFindUnique(1) = {}

\* C7: the write step of a successful DELETE leaves no block and no tag
\* association of the recipe, keeps every Tag row, and leaves every other
\* recipe with the associations and blocks it had.
C7_DeleteCascades ==
    [][ \A h \in Handlers :
          LET r == inflight[h] IN
          (Wrote(h) /\ r.kind = "DELETE" /\ last'.status = 200) =>
             /\ r.id \notin { x.id : x \in recipe' }
             /\ CountBlocks(block', r.id) = 0
             /\ AssocOf(recipeTag', r.id) = {}
             /\ tag' = tag
             /\ \A x \in recipe : x.id # r.id =>
                   /\ x \in recipe'
                   /\ AssocOf(recipeTag', x.id) = AssocOf(recipeTag, x.id)
                   /\ BlocksIn(block', x.id) = BlocksIn(block, x.id)
      ]_vars

\* the seed recipe is deleted; recipe 2 is still associated with the tag
\* the two shared
C7_Witness ==
    /\ last.kind = "DELETE" /\ last.status = 200 /\ last.id = 1
    /\ RecipeFindUnique(1) = {} /\ RecipeFindUnique(2) # {}
    /\ [recipeId |-> 2, tagId |-> GreenId] \in recipeTag
    /\ \E t \in tag : t.id = GreenId

C9_AssociationsReferenceTags ==
    /\ \A rt \in recipeTag : \E t \in tag : t.id = rt.tagId
    /\ \A h \in Handlers :
          (inflight[h].pc = "write" /\ inflight[h].kind \in {"POST", "PUT"}) =>
             \A i \in DOMAIN inflight[h].body.tags :
                /\ inflight[h].tagIds[i] # NoId
                /\ \E t \in tag : t.id = inflight[h].tagIds[i]

\* a recipe is associated with the tag (Vegan, red), which only an upsert of
\* a request can have created
C9_Witness ==
    /\ last.status = 200 /\ last.kind \in {"POST", "PUT"}
    /\ [recipeId |-> last.id, tagId |-> RedId] \in recipeTag
    /\ \E t \in tag : t.id = RedId

\* C10: a create or update whose body is valid and whose write meets no
\* store failure and no deleted recipe is written, with exactly one
\* association per (name, color) pair of the tag list of its body.
C10_OneAssociationPerPair ==
    (last.kind \in {"POST", "PUT"} /\ last.body # NoBody
                                   /\ last.error \notin {"StoreDown", "P2025"}) =>
        /\ last.status = 200
        /\ PairsIn(tag, recipeTag, last.id) = Range(last.body.tags)
        /\ Cardinality(AssocOf(recipeTag, last.id)) = Cardinality(Range(last.body.tags))

---------------------------------------------------------------------------
\* C11: no two User rows hold the same email, and a registration with a
\* valid payload that creates no row and met no store failure is answered
\* 409, whichever of two overlapping registrations it is.
C11_RegisterConflict ==
    /\ \A x, y \in account : x.email = y.email => x = y
    /\ (authLast.kind = "register" /\ authLast.status \notin {200, 400}
                                   /\ authLast.thrown # "StoreDown") =>
          authLast.status = 409

\* C12: a login with a well-formed payload for an email no User row holds,
\* or with a password that is not the one of the row, is answered with one
\* and the same response: 401, the same error text, no user, no cookie.
C12_LoginIndistinguishable ==
    (/\ authLast.kind = "login"
     /\ LoginValid(authLast)
     /\ \/ UserFindUnique(authLast.email) = {}
        \/ \E u \in UserFindUnique(authLast.email) :
              ~bcryptCompare(authLast.password, u.passwordHash)) =>
        /\ authLast.status = 401
        /\ authLast.error = "Invalid email or password"
        /\ authLast.body = NoIdentity
        /\ authLast.cookie = NoToken

\* the second login of a client, with a well-formed payload for an email
\* that no account has, while the seed account exists
C12_Witness ==
    /\ authLast.kind = "login" /\ authLast.status = 401
    /\ authLast.email = MailB /\ UserFindUnique(MailB) = {}
    /\ authLast.password = "password2"
    /\ UserFindUnique(MailA) # {}
    /\ nreq = 2

\* C13: authOptional always calls next() and answers nothing itself; it
\* attaches the id, email, displayName and role of the payload exactly when
\* the cookie is a token the server signed for an account and its expiry has
\* not come, and attaches no identity for every other cookie.
C13_AuthOptionalIdentity ==
    seen # NotSeen =>
        /\ seen.next
        /\ seen.status = 0
        /\ IF /\ \E u \in account : \E t \in 0..MaxTime :
                    seen.token = signToken(Identity(u), t)
              /\ seen.at < seen.token.exp
           THEN /\ seen.user # NoUser
                /\ Identity(seen.user) = seen.token.payload
           ELSE seen.user = NoUser

\* the cookie a login set is presented days later, before its expiry, and
\* the identity of the seed account is attached
C13_Witness ==
    /\ seen.token = cookie /\ cookie # NoToken
    /\ seen.at > seen.token.iat /\ seen.at < seen.token.exp
    /\ seen.user # NoUser
    /\ seen.user.id = "u1" /\ seen.user.email = MailA /\ seen.user.role = "USER"

---------------------------------------------------------------------------
\* C14: no recipe write and no upload of an anonymous caller gets past
\* requireAuth: it is answered 401 at once, no handler and no multer run
\* starts for it, and accounts, recipes, blocks, tags, associations, the
\* uploads directory and the cloud stores are as they were.
C14_AnonymousRejected ==
    [][ /\ \A h \in Handlers : Accepted(h) => inflight'[h].caller # NoUser
        /\ (upflight = UpIdle /\ upflight' # UpIdle) => upflight'.caller # NoUser
        /\ (last'.kind # Null /\ last'.caller = NoUser) => last'.status = 401
        /\ (upLast'.status # 0 /\ upLast'.caller = NoUser) => upLast'.status = 401
        /\ (nreq' = nreq + 1 /\ inflight' = inflight /\ upflight' = upflight) =>
              UNCHANGED <<db, account, files, cloud>>
      ]_vars

\* an anonymous DELETE of the seed recipe and an anonymous upload of a photo
\* were both answered 401
C14_Witness ==
    /\ nreq = 2
    /\ last.kind = "DELETE" /\ last.id = 1 /\ last.caller = NoUser /\ last.status = 401
    /\ RecipeFindUnique(1) # {}
    /\ upLast.caller = NoUser /\ upLast.status = 401 /\ upLast.file.field = "photo"
    /\ files = {}

\* C18: the URL of a stored upload comes from Cloudinary when Cloudinary is
\* configured, else from Google Cloud Storage when that is configured, else
\* from the local uploads directory; the one cloud call made, if any, went to
\* that backend, and an upload waits for no other backend.
C18_BackendPriority ==
    /\ upLast.status = 200 =>
          /\ cloudinaryConfigured =>
                /\ upLast.url.backend = "cloudinary"
                /\ upLast.calls = <<[backend |-> "cloudinary", ok |-> TRUE]>>
          /\ (~cloudinaryConfigured /\ googleStorageConfigured) =>
                /\ upLast.url.backend = "gcs"
                /\ upLast.calls = <<[backend |-> "gcs", ok |-> TRUE]>>
          /\ (~cloudinaryConfigured /\ ~googleStorageConfigured) =>
                /\ upLast.url.backend = "local"
                /\ upLast.calls = <<>>
    /\ Len(upLast.calls) <= 1
    /\ upflight.pc = "cloudinary" => cloudinaryConfigured
    /\ upflight.pc = "gcs" => (~cloudinaryConfigured /\ googleStorageConfigured)

\* with both cloud backends configured an upload was stored by Cloudinary
C18_Witness ==
    /\ cloudinaryConfigured /\ googleStorageConfigured
    /\ upLast.status = 200 /\ upLast.url.backend = "cloudinary"
    /\ \E o \in cloud : o.backend = "cloudinary" /\ o.path = upLast.path

\* C19: an upload whose cloud call failed is answered 500 'Upload failed'
\* with no URL, after that one call and no other.
C19_NoFallback ==
    (\E i \in DOMAIN upLast.calls : ~upLast.calls[i].ok) =>
        /\ upLast.status = 500
        /\ upLast.error = "Upload failed"
        /\ upLast.url = NoUrl
        /\ Len(upLast.calls) = 1

\* the Cloudinary call of an upload failed while its file was in the uploads
\* directory
C19_Witness ==
    /\ upLast.calls = <<[backend |-> "cloudinary", ok |-> FALSE]>>
    /\ upLast.status = 500
    /\ upLast.path \in files

\* C20: an authenticated upload of a photo larger than the size limit is
\* answered 413 with no URL, no cloud backend was called for it, and the file
\* multer wrote for it is neither in the uploads directory nor at a backend.
C20_TooLargeRejected ==
    (/\ upLast.status # 0
     /\ upLast.caller # NoUser
     /\ upLast.file.field = "photo"
     /\ upLast.file.size > MaxFileSize) =>
        /\ upLast.status = 413
        /\ upLast.url = NoUrl
        /\ upLast.calls = <<>>
        /\ upLast.path \notin files
        /\ \A o \in cloud : o.path # upLast.path

\* with Cloudinary configured, a photo one byte past the limit was answered
\* 413 after multer had started to write it
C20_Witness ==
    /\ cloudinaryConfigured
    /\ upLast.status = 413 /\ upLast.file.size = MaxFileSize + 1
    /\ upLast.path # NoPath

---------------------------------------------------------------------------
\* the ids of the recipes of the answer
ListedIds == { item.id : item \in listLast.items }

\* text q is all blanks, or empty
Blank(q) == \A i \in DOMAIN q : q[i] = " "

\* name has the characters of q somewhere in a row, whatever their case
Has(name, q) ==
    \E k \in 0..(Len(Chars(name)) - Len(q)) :
        \A i \in 1..Len(q) : Lower(Chars(name)[k + i]) = Lower(q[i])

\* the ids of the recipes whose name, or the name of one of their tags, has q
Matching(q) ==
    { r.id : r \in { x \in recipe : \/ Has(x.name, q)
                                    \/ \E t \in TagsOf(x.id) : Has(t.name, q) } }

\* C15: every recipe in the answer to a list request with a tag-id set is
\* associated with every tag id of the set.
C15_TagFilterConjunction ==
    (listLast.status = 200 /\ listLast.tagIds # {}) =>
        \A item \in listLast.items : listLast.tagIds \subseteq { t.id : t \in item.tags }

\* C16, as stated: without a tag set, a blank query is answered with all
\* recipes, and any other query q with exactly the recipes whose name or tag
\* name has q as it was sent.
C16_QueryMatchesAsSent ==
    (listLast.status = 200 /\ listLast.tagIds = {}) =>
        IF Blank(listLast.q) THEN ListedIds = { r.id : r \in recipe }
        ELSE ListedIds = Matching(listLast.q)

\* C16, amended: without a tag set, a blank query is answered with all
\* recipes, and any other query with exactly the recipes whose name or tag
\* name has the query without the blanks at its ends.
C16_QueryMatchesTrimmed ==
    (listLast.status = 200 /\ listLast.tagIds = {}) =>
        IF Blank(listLast.q) THEN ListedIds = { r.id : r \in recipe }
        ELSE ListedIds = Matching(Trim(listLast.q))

\* the query " so " is answered with a Soup and without a Stew that is stored
C16_Witness ==
    /\ listLast.status = 200 /\ listLast.tagIds = {}
    /\ listLast.q = <<" ", "s", "o", " ">>
    /\ \E item \in listLast.items : item.name = "Soup"
    /\ \E r \in recipe : r.name = "Stew" /\ r.id \notin ListedIds

\* C17: the firstPhotoUrl of every item of the list is the photoUrl of the
\* recipe's block of order 0 if that block is a PHOTO block, and null if it
\* is not.
C17_FirstPhotoUrl ==
    \A item \in listLast.items :
        /\ RowsAt(block, item.id, 0) = 1
        /\ \A b \in DOMAIN block :
              (b.recipeId = item.id /\ b.order = 0) =>
                 item.firstPhotoUrl = IF b.type = "PHOTO" THEN b.photoUrl ELSE Null

\* a listed recipe whose first block is TEXT and whose second is PHOTO has
\* no firstPhotoUrl
C17_Witness ==
    \E item \in listLast.items :
        /\ item.firstPhotoUrl = Null
        /\ \E b \in DOMAIN block : b.recipeId = item.id /\ b.order = 1 /\ b.type = "PHOTO"

---------------------------------------------------------------------------
\* C21, as stated: a recipe create or update of an authenticated caller whose
\* body fails recipeUpsertSchema is answered 400 whatever the store holds, and
\* leaves every table as it was.
C21_InvalidBodyAnswered400 ==
    [][ \A h \in Handlers, c \in Users, id \in 1..nextRecipeId, b \in Bodies :
          (~RecipeUpsertValid(b) /\ (PostRecipe(h, c, b) \/ PutRecipe(h, c, id, b))) =>
              /\ last'.status = 400
              /\ UNCHANGED <<db, account>>
      ]_vars

---------------------------------------------------------------------------
\* C22: while the answer to a successful POST is the last answer given, GET
\* of the id it returned shows the name of the payload, the caller as owner,
\* the blocks of the payload with the same content in the same sequence and
\* the order values 0..n-1, and exactly the tags of the payload.
C22_CreateRoundTrip ==
    (last.kind = "POST" /\ last.status = 200) =>
        LET g == GetRecipe(last.id) IN
        /\ g.status = 200
        /\ g.name = last.body.name
        /\ g.ownerId = last.caller.id
        /\ Contents(g.blocks) = last.body.blocks
        /\ Orders(g.blocks) = [i \in DOMAIN last.body.blocks |-> i - 1]
        /\ Pairs(g.tags) = Range(last.body.tags)

\* u2 created recipe 2 with three blocks and two tags, one of them new to
\* the store, and GET shows three blocks
C22_Witness ==
    /\ last.kind = "POST" /\ last.status = 200 /\ last.id = 2
    /\ last.caller.id = "u2"
    /\ last.body.blocks = <<TextA, PhotoU, TextA>>
    /\ last.body.tags = <<Green, Red>>
    /\ Len(GetRecipe(2).blocks) = 3

---------------------------------------------------------------------------
\* AUTO_DB_PUSH is one of the texts that switch the push on, in any case of
\* its letters, or it is not set and NODE_ENV is production
PushEnabled ==
    \/ startEnv.AUTO_DB_PUSH \in { <<"T", "R", "U", "E">>, <<"1">>, <<"y", "e", "s">>, <<"o", "n">> }
    \/ startEnv.AUTO_DB_PUSH = NotSet /\ startEnv.NODE_ENV = "production"

\* the server module of process p is loaded
Loaded(p) == proc[p].pc \in {"find", "create", "settled", "listening"}

\* C23: with the schema push enabled, a process whose server module is loaded
\* has DATABASE_URL set and has seen prisma db push exit with code 0; a
\* process whose push did not exit with 0, or that found DATABASE_URL unset,
\* has exited with code 1 and its server module is not loaded; with the push
\* switched off, the module is loaded without a push having run, and no
\* process exits.
C23_PushBeforeServer ==
    \A p \in Procs :
        /\ Loaded(p) => proc[p].push = (IF PushEnabled THEN "ok" ELSE "none")
        /\ (PushEnabled /\ ~startEnv.DATABASE_URL) => proc[p].pc \in {"off", "exited"}
        /\ proc[p].push = "failed" => proc[p].pc = "exited"
        /\ proc[p].pc = "push" => (PushEnabled /\ startEnv.DATABASE_URL)
        /\ proc[p].pc = "exited" =>
              /\ proc[p].code = 1
              /\ PushEnabled
              /\ (~startEnv.DATABASE_URL \/ proc[p].push = "failed")

\* with AUTO_DB_PUSH=TRUE outside production, one process listens after its
\* push ended with code 0 and the other has exited after its push failed
C23_Witness ==
    /\ startEnv.AUTO_DB_PUSH = <<"T", "R", "U", "E">> /\ startEnv.NODE_ENV = "test"
    /\ proc["p1"].pc = "listening" /\ proc["p1"].push = "ok"
    /\ proc["p2"].pc = "exited" /\ proc["p2"].push = "failed" /\ proc["p2"].code = 1

---------------------------------------------------------------------------
\* the admin e-mail or the admin password is missing from the environment
AdminMissing == startEnv.ADMIN_EMAIL = NotSet \/ startEnv.ADMIN_PASSWORD \in {Null, ""}

\* the User rows with the admin e-mail in table acc
AdminsIn(acc) == { u \in acc : u.email = startEnv.ADMIN_EMAIL }

\* C24: no startup step leaves two users with the same e-mail; without the
\* admin e-mail or password no step creates a user; a step that changes the
\* User table adds one row, with the admin e-mail and role ADMIN, and only
\* when no user had that e-mail; and a bootstrap that ends without an error,
\* the variables being set, leaves a user with the admin e-mail.
C24_AdminBootstrap ==
    [][ /\ \A e \in {MailA, MailB} : Cardinality({ u \in account' : u.email = e }) <= 1
        /\ AdminMissing => account' = account
        /\ account' # account =>
              /\ account \subseteq account'
              /\ AdminsIn(account) = {}
              /\ \E u \in account' :
                    /\ account' \ account = {u}
                    /\ u.email = startEnv.ADMIN_EMAIL /\ u.role = "ADMIN"
        /\ \A p \in Procs :
              (proc'[p].pc = "settled" /\ proc[p].pc # "settled"
                 /\ proc'[p].err = Null /\ ~AdminMissing) =>
                  AdminsIn(account') # {}
      ]_vars

\* the third start of a process finds the admin an earlier start created and
\* creates nothing
C24_Witness ==
    /\ boots = 3
    /\ proc["p1"].pc = "listening" /\ ~proc["p1"].created /\ proc["p1"].err = Null
    /\ proc["p2"].pc = "off"
    /\ Cardinality(account) = 2
    /\ \E u \in account : u.email = startEnv.ADMIN_EMAIL /\ u.role = "ADMIN"

---------------------------------------------------------------------------
\* in tables blk, tg, rtg recipe id has the blocks of the body at the orders
\* 0..n-1, each once, and the tags of the body, and nothing else
HoldsExactly(blk, tg, rtg, id, body) ==
    /\ StoredAs(blk, id, body.blocks)
    /\ \A k \in 0..(Len(body.blocks) - 1) : RowsAt(blk, id, k) = 1
    /\ PairsIn(tg, rtg, id) = Range(body.tags)
    /\ Cardinality(AssocOf(rtg, id)) = Cardinality(Range(body.tags))

\* C25: when the write of a PUT is answered 200 while another PUT on the same
\* recipe is in flight, the recipe holds exactly the payload of the one that
\* wrote; and when the second of two PUTs on a recipe has written, the recipe
\* holds exactly its payload if it was answered 200 and exactly the payload
\* of the first if it was answered 500.
C25_OverlappingPutsOneWins ==
    [][ \A h, o \in Handlers :
          LET r == inflight[h] IN
          (h # o /\ Wrote(h) /\ r.kind = "PUT") =>
             /\ (inflight[o].kind = "PUT" /\ inflight[o].id = r.id /\ last'.status = 200) =>
                   HoldsExactly(block', tag', recipeTag', r.id, r.body)
             /\ (inflight[o] = Idle /\ nreq = 2 /\ last.kind = "PUT" /\ last.id = r.id
                                    /\ last.status = 200) =>
                   HoldsExactly(block', tag', recipeTag', r.id,
                                IF last'.status = 200 THEN r.body ELSE last.body)
      ]_vars

\* two PUTs on the seed recipe overlap, with different blocks and different
\* tags: the one of the second handler, received while the first was in
\* flight, is about to write, the other has been answered 200, and the
\* recipe holds the payload of the one that was answered
C25_Witness ==
    /\ nreq = 2 /\ inflight["h1"] = Idle
    /\ inflight["h2"].kind = "PUT" /\ inflight["h2"].id = 1 /\ inflight["h2"].pc = "write"
    /\ inflight["h2"].body.blocks = <<TextA, PhotoU, TextA>>
    /\ inflight["h2"].body.tags = <<Green, Red>>
    /\ last.kind = "PUT" /\ last.status = 200 /\ last.id = 1
    /\ last.body.blocks = <<PhotoU>> /\ last.body.tags = <<Red>>
    /\ HoldsExactly(block, tag, recipeTag, 1, last.body)

---------------------------------------------------------------------------
\* C26: every Block row and every RecipeTag row is of a recipe that is
\* stored, in every state; and the write of a PUT whose recipe has been
\* deleted since its check is answered 500 and leaves the Recipe, Block and
\* RecipeTag tables as they are.
C26_NoOrphansAfterDelete ==
    /\ [](/\ \A b \in DOMAIN block : RecipeFindUnique(b.recipeId) # {}
          /\ \A rt \in recipeTag : RecipeFindUnique(rt.recipeId) # {})
    /\ [][ \A h \in Handlers :
             (Wrote(h) /\ inflight[h].kind = "PUT"
                       /\ RecipeFindUnique(inflight[h].id) = {}) =>
                 /\ last'.status = 500
                 /\ UNCHANGED <<recipe, recipeTag, block>>
         ]_vars

\* a PUT on the seed recipe passed its check, a DELETE removed the recipe,
\* and the PUT was answered 500: no row of recipe 1 is left
C26_Witness ==
    /\ nreq = 2
    /\ last.kind = "PUT" /\ last.status = 500 /\ last.error = "P2025" /\ last.id = 1
    /\ RecipeFindUnique(1) = {}
    /\ CountBlocks(block, 1) = 0 /\ AssocOf(recipeTag, 1) = {}

---------------------------------------------------------------------------
\* C27: a recipe row that appears has the id of the caller of the POST that
\* wrote it as ownerId; no step changes the ownerId of a stored recipe; and
\* the write of a PUT leaves every Recipe row as it was but for the name of
\* the recipe it addresses, and the blocks and associations of every other
\* recipe as they were.
C27_OwnerNeverChanges ==
    [][ /\ \A x \in recipe, y \in recipe' : y.id = x.id => y.ownerId = x.ownerId
        /\ \A y \in recipe' :
              (\A x \in recipe : x.id # y.id) =>
                  \E h \in Handlers :
                     /\ Wrote(h) /\ inflight[h].kind = "POST"
                     /\ y.ownerId = inflight[h].caller.id
        /\ \A h \in Handlers :
              (Wrote(h) /\ inflight[h].kind = "PUT") =>
                 /\ { [id |-> y.id, ownerId |-> y.ownerId] : y \in recipe' }
                       = { [id |-> x.id, ownerId |-> x.ownerId] : x \in recipe }
                 /\ \A x \in recipe : x.id # inflight[h].id =>
                       /\ x \in recipe'
                       /\ BlocksIn(block', x.id) = BlocksIn(block, x.id)
                       /\ AssocOf(recipeTag', x.id) = AssocOf(recipeTag, x.id)
      ]_vars

\* an ADMIN's PUT renamed the recipe of u1, and u1 is still its owner
C27_Witness ==
    /\ last.kind = "PUT" /\ last.status = 200 /\ last.id = 1
    /\ last.caller.role = "ADMIN"
    /\ \E r \in recipe : r.id = 1 /\ r.name = "Stew" /\ r.ownerId = "u1"

---------------------------------------------------------------------------
\* C30: a process whose server module is loaded listens in the end; one
\* whose ensureAdminUser was rejected listens in the end with the error
\* logged; and a process begins to listen only from the state in which
\* ensureAdminUser has settled.
C30_ListensAfterBootstrap ==
    /\ \A p \in Procs : Loaded(p) ~> (proc[p].pc = "listening")
    /\ \A p \in Procs :
          (proc[p].pc = "settled" /\ proc[p].err # Null) ~>
              (proc[p].pc = "listening" /\ proc[p].err # Null)
    /\ [][ \A p \in Procs :
             (proc'[p].pc = "listening" /\ proc[p].pc # "listening") =>
                 (proc[p].pc = "settled" /\ proc'[p].err = proc[p].err)
         ]_vars

\* two processes started together: one created the admin, the other's create
\* was rejected by the unique key, and both listen
C30_Witness ==
    /\ proc["p1"].pc = "listening" /\ proc["p2"].pc = "listening"
    /\ \E p, q \in Procs : proc[p].created /\ proc[q].err = "P2002 User"
    /\ Cardinality(AdminsIn(account)) = 1

---------------------------------------------------------------------------
\* C28: when no list request of the client waits for its response, the
\* recipes it shows are the answer to its current query and filter.
C28_LatestQueryShown ==
    listCalls = {} =>
        state.recipes = ListAnswer(state.query, FilterIds(state.filterTags))

\* C29: no two entries of the editor's tag list have the same name and the
\* same colour.
C29_EditorTagsDistinct ==
    \A i, j \in DOMAIN editorTags :
        i # j => <<editorTags[i].name, editorTags[i].color>>
                   # <<editorTags[j].name, editorTags[j].color>>

====
